---- MODULE Spec2Model ----
(***************************************************************************)
(* Model of the allocation engine of teams-people-allocation:              *)
(* src/src/models.js (TeamMember, RoadmapItem, Allocation) and             *)
(* src/src/optimizer.js (AllocationOptimizer).                             *)
(*                                                                         *)
(* Numbers.  JavaScript numbers are modelled exactly, as scaled integers:  *)
(*   capacities and allocation amounts in units of 1/600 (One = 1.0),      *)
(*   scores in units of 1/120, priorities in units of 1/10, level weights  *)
(*   in units of 1/10, effort in whole weeks.  A division whose divisor    *)
(*   can be zero goes through JSDiv, which yields NaN and Infinity as      *)
(*   IEEE-754 does.  The inputs are chosen so that items with different    *)
(*   (size, complexity) have different exact priorities, so the exact      *)
(*   order and the floating-point order of the items agree.                *)
(*                                                                         *)
(* Strings.  TLC strings are atomic, so Chars gives the characters of      *)
(* every string the model uses; toLowerCase and includes are computed on   *)
(* the characters.                                                         *)
(***************************************************************************)
EXTENDS Integers, Sequences, FiniteSets, TLC

\* ------------------------------------------------------------------ bounds
MaxMembers == 2
MaxItems == 2
MaxRuns == 2
MaxStored == 2     \* members in team-members.json when the server starts
MaxImported == 2   \* members one sheet import yields

\* 1.0 in capacity units (models.js: capacity is "0.0 to 1.0")
One == 600

\* ----------------------------------------------------------------- strings
Chars ==
  [s \in {"", "React", "CSS", "Node.js", "Python", "JavaScript", "Frontend",
          "Backend", "General", "Leadership", "Junior", "Mid", "Senior",
          "intern", "junior", "mid", "senior", "staff", "principal",
          "architect", "ios", "swift", "objective-c", "mobile development",
          "mobile", "app development", "android", "kotlin", "java",
          "frontend", "javascript", "react", "vue", "angular", "html", "css",
          "web development", "backend", "api", "node.js", "python",
          "database", "sql", "server", "full-stack", "fullstack",
          "Alice", "alice", "Bob"} |->
    CASE s = "" -> << >>
      [] s = "React" -> <<"R","e","a","c","t">>
      [] s = "CSS" -> <<"C","S","S">>
      [] s = "Node.js" -> <<"N","o","d","e",".","j","s">>
      [] s = "Python" -> <<"P","y","t","h","o","n">>
      [] s = "JavaScript" -> <<"J","a","v","a","S","c","r","i","p","t">>
      [] s = "Frontend" -> <<"F","r","o","n","t","e","n","d">>
      [] s = "Backend" -> <<"B","a","c","k","e","n","d">>
      [] s = "General" -> <<"G","e","n","e","r","a","l">>
      [] s = "Leadership" -> <<"L","e","a","d","e","r","s","h","i","p">>
      [] s = "Junior" -> <<"J","u","n","i","o","r">>
      [] s = "Mid" -> <<"M","i","d">>
      [] s = "Senior" -> <<"S","e","n","i","o","r">>
      [] s = "intern" -> <<"i","n","t","e","r","n">>
      [] s = "junior" -> <<"j","u","n","i","o","r">>
      [] s = "mid" -> <<"m","i","d">>
      [] s = "senior" -> <<"s","e","n","i","o","r">>
      [] s = "staff" -> <<"s","t","a","f","f">>
      [] s = "principal" -> <<"p","r","i","n","c","i","p","a","l">>
      [] s = "architect" -> <<"a","r","c","h","i","t","e","c","t">>
      [] s = "ios" -> <<"i","o","s">>
      [] s = "swift" -> <<"s","w","i","f","t">>
      [] s = "objective-c" -> <<"o","b","j","e","c","t","i","v","e","-","c">>
      [] s = "mobile development" ->
           <<"m","o","b","i","l","e"," ","d","e","v","e","l","o","p","m","e","n","t">>
      [] s = "mobile" -> <<"m","o","b","i","l","e">>
      [] s = "app development" ->
           <<"a","p","p"," ","d","e","v","e","l","o","p","m","e","n","t">>
      [] s = "android" -> <<"a","n","d","r","o","i","d">>
      [] s = "kotlin" -> <<"k","o","t","l","i","n">>
      [] s = "java" -> <<"j","a","v","a">>
      [] s = "frontend" -> <<"f","r","o","n","t","e","n","d">>
      [] s = "javascript" -> <<"j","a","v","a","s","c","r","i","p","t">>
      [] s = "react" -> <<"r","e","a","c","t">>
      [] s = "vue" -> <<"v","u","e">>
      [] s = "angular" -> <<"a","n","g","u","l","a","r">>
      [] s = "html" -> <<"h","t","m","l">>
      [] s = "css" -> <<"c","s","s">>
      [] s = "web development" ->
           <<"w","e","b"," ","d","e","v","e","l","o","p","m","e","n","t">>
      [] s = "backend" -> <<"b","a","c","k","e","n","d">>
      [] s = "api" -> <<"a","p","i">>
      [] s = "node.js" -> <<"n","o","d","e",".","j","s">>
      [] s = "python" -> <<"p","y","t","h","o","n">>
      [] s = "database" -> <<"d","a","t","a","b","a","s","e">>
      [] s = "sql" -> <<"s","q","l">>
      [] s = "server" -> <<"s","e","r","v","e","r">>
      [] s = "full-stack" -> <<"f","u","l","l","-","s","t","a","c","k">>
      [] s = "fullstack" -> <<"f","u","l","l","s","t","a","c","k">>
      [] s = "Alice" -> <<"A","l","i","c","e">>
      [] s = "alice" -> <<"a","l","i","c","e">>
      [] s = "Bob" -> <<"B","o","b">>]

\* one character of String.prototype.toLowerCase
LowerChar(c) ==
  CASE c = "A" -> "a" [] c = "B" -> "b" [] c = "C" -> "c" [] c = "F" -> "f" [] c = "G" -> "g"
    [] c = "J" -> "j" [] c = "L" -> "l" [] c = "M" -> "m" [] c = "N" -> "n"
    [] c = "P" -> "p" [] c = "R" -> "r" [] c = "S" -> "s"
    [] OTHER -> c

\* s.toLowerCase(), as characters
toLowerCase(s) == [i \in DOMAIN Chars[s] |-> LowerChar(Chars[s][i])]

\* a.includes(b) on character sequences
includes(a, b) ==
  \E k \in 0..(Len(a) - Len(b)) : SubSeq(a, k + 1, k + Len(b)) = b

\* the test all three of hasSkill / hasInterest / hasCareerGoal apply
FuzzyMatch(x, y) ==
  \/ includes(toLowerCase(x), toLowerCase(y))
  \/ includes(toLowerCase(y), toLowerCase(x))

\* ------------------------------------------------------ JavaScript numbers
\* n / d of two numbers given as integers in the same unit
JSDiv(n, d) ==
  IF d # 0 THEN [kind |-> "num", n |-> n, d |-> d]
  ELSE IF n = 0 THEN [kind |-> "NaN", n |-> 0, d |-> 0]
  ELSE [kind |-> "Infinity", n |-> (IF n > 0 THEN 1 ELSE -1), d |-> 0]

\* q >= a/b, q > a/b, q < a/b for a quotient q and a positive literal a/b;
\* every comparison with NaN is false
QuotGE(q, a, b) ==
  CASE q.kind = "NaN" -> FALSE
    [] q.kind = "Infinity" -> q.n > 0
    [] OTHER -> IF q.d > 0 THEN q.n * b >= a * q.d ELSE q.n * b <= a * q.d

QuotGT(q, a, b) ==
  CASE q.kind = "NaN" -> FALSE
    [] q.kind = "Infinity" -> q.n > 0
    [] OTHER -> IF q.d > 0 THEN q.n * b > a * q.d ELSE q.n * b < a * q.d

QuotLT(q, a, b) ==
  CASE q.kind = "NaN" -> FALSE
    [] q.kind = "Infinity" -> q.n < 0
    [] OTHER -> IF q.d > 0 THEN q.n * b < a * q.d ELSE q.n * b > a * q.d

\* Math.round(x) for x = n/d with d > 0: floor(x + 1/2)
RoundDiv(n, d) == (2 * n + d) \div (2 * d)

Min2(a, b) == IF a <= b THEN a ELSE b
Max2(a, b) == IF a >= b THEN a ELSE b

RECURSIVE SumSeq(_)
SumSeq(s) == IF s = << >> THEN 0 ELSE Head(s) + SumSeq(Tail(s))

\* s.filter(P).length, given the sequence of the values of P
CountSeq(bs) == Cardinality({i \in DOMAIN bs : bs[i]})

\* ------------------------------------------------------------ entity model
Statuses == <<"fully-staffed", "adequately-staffed", "under-staffed", "not-staffed">>

\* an item built by the RoadmapItem constructor has no effortBreakdown
NoEffort ==
  [present |-> FALSE, ios |-> 0, android |-> 0, web |-> 0, backend |-> 0, total |-> 0,
   totalGiven |-> FALSE]

Effort(i, a, w, b) ==
  [present |-> TRUE, ios |-> i, android |-> a, web |-> w, backend |-> b, total |-> i + a + w + b,
   totalGiven |-> TRUE]

\* an effortBreakdown object without a total field: total reads as undefined,
\* and undefined > 0 is false
EffortWithoutTotal(i, a, w, b) ==
  [present |-> TRUE, ios |-> i, android |-> a, web |-> w, backend |-> b, total |-> 0,
   totalGiven |-> FALSE]

\* RoadmapItem.calculatePriority, in tenths: size*0.6 + complexity*0.4
calculatePriority(size, complexity) == (size * 6) + (complexity * 4)

\* new TeamMember(name, level, skills, capacity, interests, careerGoals)
TeamMember(name, level, skills, capacity, interests, careerGoals) ==
  [name |-> name, level |-> level, skills |-> skills, capacity |-> capacity,
   interests |-> interests, careerGoals |-> careerGoals,
   allocatedCapacity |-> 0, assignments |-> << >>]

\* new RoadmapItem(...), then item.effortBreakdown = effort where given
RoadmapItem(name, size, complexity, requiredSkills, domain, minLevel, careerOpportunities, effort) ==
  [name |-> name, size |-> size, complexity |-> complexity,
   requiredSkills |-> requiredSkills, domain |-> domain, minLevel |-> minLevel,
   careerOpportunities |-> careerOpportunities, effortBreakdown |-> effort,
   assignedMembers |-> << >>, priority |-> calculatePriority(size, complexity),
   allocationStatus |-> "undefined"]

\* variant: a falsy capacity defaulted to 1.0, (this.capacity || 1.0)
getAvailableCapacity_DefaultOne(member) ==
  Max2(0, (IF member.capacity = 0 THEN One ELSE member.capacity) - member.allocatedCapacity)

getAvailableCapacity(member) == Max2(0, member.capacity - member.allocatedCapacity)

hasSkill(member, skill) == \E i \in DOMAIN member.skills : FuzzyMatch(member.skills[i], skill)

hasInterest(member, area) == \E i \in DOMAIN member.interests : FuzzyMatch(member.interests[i], area)

hasCareerGoal(member, goal) == \E i \in DOMAIN member.careerGoals : FuzzyMatch(member.careerGoals[i], goal)

\* levelWeights[level.toLowerCase()] || 1.0, in tenths
LevelWeight(level) ==
  LET l == toLowerCase(level) IN
  CASE l = Chars["intern"] -> 5
    [] l = Chars["junior"] -> 7
    [] l = Chars["mid"] -> 10
    [] l = Chars["senior"] -> 13
    [] l = Chars["staff"] -> 15
    [] l = Chars["principal"] -> 17
    [] l = Chars["architect"] -> 18
    [] OTHER -> 10

getLevelWeight(member) == LevelWeight(member.level)

getTotalAllocation(item) ==
  SumSeq([i \in DOMAIN item.assignedMembers |-> item.assignedMembers[i].allocation])

\* RoadmapItem.getRequiredCapacity, in capacity units:
\*   (total/12) * (1 + (complexity-1)*0.1) = total*(9+complexity)/120
\*   (size/5) * (complexity/5) * 2         = size*complexity*2/25
\* variant: the LoE formula whenever an effortBreakdown is present
getRequiredCapacity_AnyEffort(item) ==
  IF item.effortBreakdown.present
  THEN (item.effortBreakdown.total * (9 + item.complexity) * One) \div 120
  ELSE (item.size * item.complexity * 2 * One) \div 25

getRequiredCapacity(item) ==
  IF /\ item.effortBreakdown.present
     /\ item.effortBreakdown.totalGiven
     /\ item.effortBreakdown.total > 0
  THEN (item.effortBreakdown.total * (9 + item.complexity) * One) \div 120
  ELSE (item.size * item.complexity * 2 * One) \div 25

\* ----------------------------------------------------------------- scoring
platformSkills ==
  [ios |-> <<"ios", "swift", "objective-c", "mobile development", "mobile", "app development">>,
   android |-> <<"android", "kotlin", "java", "mobile development", "mobile", "app development">>,
   web |-> <<"frontend", "javascript", "react", "vue", "angular", "html", "css", "web development">>,
   backend |-> <<"backend", "api", "node.js", "python", "java", "database", "sql", "server">>]

Platforms == <<"ios", "android", "web", "backend">>

\* relevantSkills.some(skill => memberSkillsLower.some(ms => ms.includes(skill)))
SkillsIncludeAny(member, keywords) ==
  \E k \in DOMAIN keywords : \E i \in DOMAIN member.skills :
    includes(toLowerCase(member.skills[i]), Chars[keywords[k]])

\* Allocation.calculatePlatformBonus, in score units (1/120)
calculatePlatformBonus(member, item) ==
  LET effort == item.effortBreakdown
      perPlatform(p) ==
        IF effort[p] > 0 /\ SkillsIncludeAny(member, platformSkills[p])
        THEN (effort[p] * 30 * 120) \div effort.total
        ELSE 0
      platformCount == CountSeq([i \in DOMAIN Platforms |-> effort[Platforms[i]] > 0])
      fullStack ==
        IF effort.total > 0 /\ platformCount > 2
           /\ SkillsIncludeAny(member, <<"frontend", "backend", "full-stack", "fullstack">>)
        THEN 15 * 120 ELSE 0
  IN IF ~effort.present THEN 0
     ELSE SumSeq([i \in DOMAIN Platforms |-> perPlatform(Platforms[i])]) + fullStack

\* variant: no interest bonus
calculateScore_NoInterest(member, item, allocation) ==
  LET skillMatches == CountSeq([i \in DOMAIN item.requiredSkills |->
                                  hasSkill(member, item.requiredSkills[i])])
      skillScore35 == (skillMatches * 35 * 120) \div Max2(1, Len(item.requiredSkills))
      platform == IF item.effortBreakdown.present THEN calculatePlatformBonus(member, item) ELSE 0
      careerMatches == CountSeq([i \in DOMAIN item.careerOpportunities |->
                                   hasCareerGoal(member, item.careerOpportunities[i])])
      career == IF careerMatches > 0 THEN 20 * 120 ELSE 0
      memberLevelWeight == getLevelWeight(member)
      minLevelWeight == LevelWeight(item.minLevel)
      level ==
        IF memberLevelWeight >= minLevelWeight
        THEN (10 * 120) + (IF item.complexity >= 4 /\ memberLevelWeight >= 13 THEN 10 * 120 ELSE 0)
        ELSE -(20 * 120)
  IN skillScore35 + platform + career + level
     + (item.priority * 5 * 12) + ((allocation * 15 * 120) \div One)

\* variant: the level term pays +10 whether or not the member reaches minLevel
calculateScore_NoPenalty(member, item, allocation) ==
  LET skillMatches == CountSeq([i \in DOMAIN item.requiredSkills |->
                                  hasSkill(member, item.requiredSkills[i])])
      skillScore35 == (skillMatches * 35 * 120) \div Max2(1, Len(item.requiredSkills))
      platform == IF item.effortBreakdown.present THEN calculatePlatformBonus(member, item) ELSE 0
      interest == IF hasInterest(member, item.domain) THEN 25 * 120 ELSE 0
      careerMatches == CountSeq([i \in DOMAIN item.careerOpportunities |->
                                   hasCareerGoal(member, item.careerOpportunities[i])])
      career == IF careerMatches > 0 THEN 20 * 120 ELSE 0
  IN skillScore35 + platform + interest + career + (10 * 120)
     + (item.priority * 5 * 12) + ((allocation * 15 * 120) \div One)

\* variant: the skill term counts matches, skillMatches * 35, without dividing
\* by the number of required skills
calculateScore_MatchCount(member, item, allocation) ==
  LET skillMatches == CountSeq([i \in DOMAIN item.requiredSkills |->
                                  hasSkill(member, item.requiredSkills[i])])
      skillScore35 == skillMatches * 35 * 120
      platform == IF item.effortBreakdown.present THEN calculatePlatformBonus(member, item) ELSE 0
      interest == IF hasInterest(member, item.domain) THEN 25 * 120 ELSE 0
      careerMatches == CountSeq([i \in DOMAIN item.careerOpportunities |->
                                   hasCareerGoal(member, item.careerOpportunities[i])])
      career == IF careerMatches > 0 THEN 20 * 120 ELSE 0
      memberLevelWeight == getLevelWeight(member)
      minLevelWeight == LevelWeight(item.minLevel)
      level ==
        IF memberLevelWeight >= minLevelWeight
        THEN (10 * 120) + (IF item.complexity >= 4 /\ memberLevelWeight >= 13 THEN 10 * 120 ELSE 0)
        ELSE -(20 * 120)
  IN skillScore35 + platform + interest + career + level
     + (item.priority * 5 * 12) + ((allocation * 15 * 120) \div One)

\* Allocation.calculateScore for (member, item, allocation), in score units
calculateScore(member, item, allocation) ==
  LET skillMatches == CountSeq([i \in DOMAIN item.requiredSkills |->
                                  hasSkill(member, item.requiredSkills[i])])
      skillScore35 == (skillMatches * 35 * 120) \div Max2(1, Len(item.requiredSkills))
      platform == IF item.effortBreakdown.present THEN calculatePlatformBonus(member, item) ELSE 0
      interest == IF hasInterest(member, item.domain) THEN 25 * 120 ELSE 0
      careerMatches == CountSeq([i \in DOMAIN item.careerOpportunities |->
                                   hasCareerGoal(member, item.careerOpportunities[i])])
      career == IF careerMatches > 0 THEN 20 * 120 ELSE 0
      memberLevelWeight == getLevelWeight(member)
      minLevelWeight == LevelWeight(item.minLevel)
      level ==
        IF memberLevelWeight >= minLevelWeight
        THEN (10 * 120) + (IF item.complexity >= 4 /\ memberLevelWeight >= 13 THEN 10 * 120 ELSE 0)
        ELSE -(20 * 120)
  IN skillScore35 + platform + interest + career + level
     + (item.priority * 5 * 12) + ((allocation * 15 * 120) \div One)

\* variant: the score is the one of the probe fraction 0.3, whatever the amount
Allocation_ProbeScore(m, it, allocation, members, items) ==
  [member |-> m, item |-> it, allocation |-> allocation,
   score |-> calculateScore(members[m], items[it], (One * 3) \div 10)]

\* new Allocation(member, item, allocation): the record and its score
Allocation(m, it, allocation, members, items) ==
  [member |-> m, item |-> it, allocation |-> allocation,
   score |-> calculateScore(members[m], items[it], allocation)]

\* ------------------------------------------------------------------ inputs
\* The people a run can be given (README / tests/models.test.js fixtures,
\* with the capacities 0, 0.15, 0.6 and 1.0).
MemberPool ==
  << [level |-> "Senior", skills |-> <<"React", "CSS">>, capacity |-> One,
      interests |-> <<"Frontend">>, careerGoals |-> <<"Leadership">>],
     [level |-> "Mid", skills |-> <<"Node.js", "Python">>, capacity |-> (One * 6) \div 10,
      interests |-> <<"Backend">>, careerGoals |-> << >>],
     [level |-> "Junior", skills |-> <<"JavaScript">>, capacity |-> 0,
      interests |-> <<"Frontend">>, careerGoals |-> << >>],
     [level |-> "Mid", skills |-> << >>, capacity |-> (One * 15) \div 100,
      interests |-> << >>, careerGoals |-> << >>] >>

\* The work items a run can be given.  POST /api/roadmap-items stores any
\* number as size, so size 0 is an input the engine can meet.
ItemPool ==
  << [size |-> 4, complexity |-> 3, requiredSkills |-> <<"React", "CSS">>, domain |-> "Frontend",
      minLevel |-> "Mid", careerOpportunities |-> <<"Leadership">>, effortBreakdown |-> NoEffort],
     [size |-> 1, complexity |-> 1, requiredSkills |-> <<"JavaScript">>, domain |-> "Frontend",
      minLevel |-> "Junior", careerOpportunities |-> << >>, effortBreakdown |-> NoEffort],
     [size |-> 0, complexity |-> 3, requiredSkills |-> << >>, domain |-> "",
      minLevel |-> "Junior", careerOpportunities |-> << >>, effortBreakdown |-> NoEffort],
     [size |-> 5, complexity |-> 5, requiredSkills |-> <<"Node.js", "Python">>, domain |-> "Backend",
      minLevel |-> "Senior", careerOpportunities |-> << >>, effortBreakdown |-> NoEffort],
     [size |-> 3, complexity |-> 3, requiredSkills |-> <<"React">>, domain |-> "General",
      minLevel |-> "Junior", careerOpportunities |-> << >>, effortBreakdown |-> Effort(2, 0, 2, 2)] >>

MemberNames == <<"Alice", "Bob", "Carol", "Dave", "Erin">>
ItemNames == <<"Item A", "Item B", "Item C", "Item D", "Item E">>

SeqsUpTo(n, S) == UNION {[1..k -> S] : k \in 0..n}

\* ------------------------------------------------------------------- state
VARIABLES
  teamMembers,           \* this.teamMembers: the caller's TeamMember objects
  roadmapItems,          \* this.roadmapItems: the caller's RoadmapItem objects
  allocations,           \* this.allocations
  pc,                    \* position in optimize(): "idle", "items", "walk"
  sortedItems,           \* optimize: sortedItems, as indices into roadmapItems
  itemPos,               \* optimize: position of the for-of loop over sortedItems
  potentialAllocations,  \* allocateItem: the sorted candidates
  potPos,                \* allocateItem: position of the for-of loop over the candidates
  remainingCapacity,     \* allocateItem: remainingCapacity
  report,                \* the object the last optimize() returned
  returned,              \* what each optimize() call returned, as serialised on return
  teamMembersFile,       \* server.js: what readDataFile(TEAM_MEMBERS_FILE) returns
  roadmapItemsFile,      \* server.js: what readDataFile(ROADMAP_ITEMS_FILE) returns
  importCall,            \* POST /api/sheets/import: replaceExisting and importedMembers of the last call
  response,              \* POST /api/sheets/import: the response of the last call
  memberData             \* input.js: the answers given to collectTeamMembers, one per member

vars == <<teamMembers, roadmapItems, allocations, pc, sortedItems, itemPos,
          potentialAllocations, potPos, remainingCapacity, report, returned,
          teamMembersFile, roadmapItemsFile, importCall, response, memberData>>

\* the variables of the web server
serverVars == <<teamMembersFile, roadmapItemsFile, importCall, response>>

\* the variables of the command-line input
inputVars == <<memberData>>

NoReport == << >>
NoCall == << >>
NoResponse == << >>

Init ==
  /\ \E team \in SeqsUpTo(MaxMembers, DOMAIN MemberPool) :
       teamMembers = [i \in DOMAIN team |->
         TeamMember(MemberNames[i], MemberPool[team[i]].level, MemberPool[team[i]].skills,
                    MemberPool[team[i]].capacity, MemberPool[team[i]].interests,
                    MemberPool[team[i]].careerGoals)]
  /\ \E its \in SeqsUpTo(MaxItems, DOMAIN ItemPool) :
       roadmapItems = [i \in DOMAIN its |->
         RoadmapItem(ItemNames[i], ItemPool[its[i]].size, ItemPool[its[i]].complexity,
                     ItemPool[its[i]].requiredSkills, ItemPool[its[i]].domain,
                     ItemPool[its[i]].minLevel, ItemPool[its[i]].careerOpportunities,
                     ItemPool[its[i]].effortBreakdown)]
  /\ allocations = << >>
  /\ pc = "idle"
  /\ sortedItems = << >>
  /\ itemPos = 1
  /\ potentialAllocations = << >>
  /\ potPos = 1
  /\ remainingCapacity = 0
  /\ report = NoReport
  /\ returned = << >>
  /\ teamMembersFile = << >>
  /\ roadmapItemsFile = << >>
  /\ importCall = NoCall
  /\ response = NoResponse
  /\ memberData = << >>

\* variant: an unstable sort that reverses elements of equal key
SortDesc_TiesReversed(s, keys) ==
  LET rank(i) == 1 + Cardinality({j \in DOMAIN s :
                        \/ keys[j] > keys[i]
                        \/ (keys[j] = keys[i] /\ j > i)})
  IN [p \in DOMAIN s |-> s[CHOOSE i \in DOMAIN s : rank(i) = p]]

\* variant: the comparator reversed, (a, b) => key(a) - key(b)
SortDesc_Ascending(s, keys) ==
  LET rank(i) == 1 + Cardinality({j \in DOMAIN s :
                        \/ keys[j] < keys[i]
                        \/ (keys[j] = keys[i] /\ j < i)})
  IN [p \in DOMAIN s |-> s[CHOOSE i \in DOMAIN s : rank(i) = p]]

\* Array.prototype.sort with comparator (a, b) => key(b) - key(a), where
\* keys[i] is the key of s[i]: stable, descending by key
SortDesc(s, keys) ==
  LET rank(i) == 1 + Cardinality({j \in DOMAIN s :
                        \/ keys[j] > keys[i]
                        \/ (keys[j] = keys[i] /\ j < i)})
  IN [p \in DOMAIN s |-> s[CHOOSE i \in DOMAIN s : rank(i) = p]]

\* ------------------------------------------------------------ optimize()
\* optimize, lines 11-24: reset the engine-owned fields and order the items
\* variant: the reset forgets allocatedCapacity
ResetMember_KeepAllocated(m) == [m EXCEPT !.assignments = << >>]

ResetMember(m) == [m EXCEPT !.allocatedCapacity = 0, !.assignments = << >>]

\* variant: the items keep their assignedMembers from the previous run
ResetItem_KeepAssigned(it) == it

ResetItem(it) == [it EXCEPT !.assignedMembers = << >>]

\* variant: this.roadmapItems.sort(...) in place, without the copy
OptimizeStart_SortInPlace ==
  /\ pc = "idle"
  /\ Len(returned) < MaxRuns
  /\ teamMembers' = [i \in DOMAIN teamMembers |-> ResetMember(teamMembers[i])]
  /\ roadmapItems' = SortDesc([i \in DOMAIN roadmapItems |-> ResetItem(roadmapItems[i])],
                              [i \in DOMAIN roadmapItems |-> roadmapItems[i].priority])
  /\ allocations' = << >>
  /\ sortedItems' = [i \in DOMAIN roadmapItems |-> i]
  /\ itemPos' = 1
  /\ pc' = "items"
  /\ UNCHANGED <<potentialAllocations, potPos, remainingCapacity, report, returned>>
  /\ UNCHANGED serverVars
  /\ UNCHANGED inputVars

OptimizeStart ==
  /\ pc = "idle"
  /\ Len(returned) < MaxRuns
  /\ teamMembers' = [i \in DOMAIN teamMembers |-> ResetMember(teamMembers[i])]
  /\ roadmapItems' = [i \in DOMAIN roadmapItems |-> ResetItem(roadmapItems[i])]
  /\ allocations' = << >>
  /\ sortedItems' = SortDesc([i \in DOMAIN roadmapItems |-> i],
                             [i \in DOMAIN roadmapItems |-> roadmapItems[i].priority])
  /\ itemPos' = 1
  /\ pc' = "items"
  /\ UNCHANGED <<potentialAllocations, potPos, remainingCapacity, report, returned>>
  /\ UNCHANGED serverVars
  /\ UNCHANGED inputVars

\* findPotentialAllocations(item): members with more than 0.1 available,
\* each with the score of a mock allocation of 0.3
findPotentialAllocations(it) ==
  LET eligible == SelectSeq([i \in DOMAIN teamMembers |-> i],
                    LAMBDA i : getAvailableCapacity(teamMembers[i]) > One \div 10)
  IN [k \in DOMAIN eligible |->
        [member |-> eligible[k],
         score |-> calculateScore(teamMembers[eligible[k]], roadmapItems[it], (One * 3) \div 10)]]

\* allocateItem, lines 35-42
AllocateItemBegin ==
  /\ pc = "items"
  /\ itemPos <= Len(sortedItems)
  /\ remainingCapacity' = getRequiredCapacity(roadmapItems[sortedItems[itemPos]])
  /\ LET potentials == findPotentialAllocations(sortedItems[itemPos])
     IN potentialAllocations' =
          SortDesc(potentials, [k \in DOMAIN potentials |-> potentials[k].score])
  /\ potPos' = 1
  /\ pc' = "walk"
  /\ UNCHANGED <<teamMembers, roadmapItems, allocations, sortedItems, itemPos, report, returned>>
  /\ UNCHANGED serverVars
  /\ UNCHANGED inputVars

\* variant: the item's remaining capacity left out of the minimum
allocationAmount_NoRemaining(remaining, available) == Min2(available, One \div 2)

\* variant: the member's available capacity left out of the minimum
allocationAmount_NoAvailable(remaining, available) == Min2(remaining, One \div 2)

\* Math.min(remainingCapacity, availableCapacity, 0.5)
allocationAmount(remaining, available) == Min2(Min2(remaining, available), One \div 2)

\* variant: any positive amount is committed
Meaningful_AboveTwentieth(amount) == amount > One \div 20

Meaningful_AnyPositive(amount) == amount > 0

\* if (allocationAmount > 0.1)
Meaningful(amount) == amount > One \div 10

\* Math.round(allocationAmount * 100)
Percentage(amount) == RoundDiv(amount * 100, One)

\* variant: the best candidate is passed over
AllocateItemStep_SkipFirst ==
  /\ pc = "walk"
  /\ potPos <= Len(potentialAllocations)
  /\ remainingCapacity > 0
  /\ LET it == sortedItems[itemPos]
         m == potentialAllocations[potPos].member
         availableCapacity == getAvailableCapacity(teamMembers[m])
         amount == allocationAmount(remainingCapacity, availableCapacity)
     IN IF potPos > 1 /\ availableCapacity > 0 /\ Meaningful(amount)
        THEN /\ teamMembers' = [teamMembers EXCEPT
                  ![m].allocatedCapacity = @ + amount,
                  ![m].assignments = Append(@, [item |-> roadmapItems[it].name,
                                                allocation |-> amount,
                                                percentage |-> Percentage(amount)])]
             /\ roadmapItems' = [roadmapItems EXCEPT
                  ![it].assignedMembers = Append(@, [member |-> teamMembers[m].name,
                                                     allocation |-> amount,
                                                     percentage |-> Percentage(amount)])]
             /\ allocations' = Append(allocations,
                                      Allocation(m, it, amount, teamMembers, roadmapItems))
             /\ remainingCapacity' = remainingCapacity - amount
        ELSE UNCHANGED <<teamMembers, roadmapItems, allocations, remainingCapacity>>
  /\ potPos' = potPos + 1
  /\ UNCHANGED <<pc, sortedItems, itemPos, potentialAllocations, report, returned>>
  /\ UNCHANGED serverVars
  /\ UNCHANGED inputVars

\* allocateItem, lines 45-82: one iteration of the loop over the candidates
AllocateItemStep ==
  /\ pc = "walk"
  /\ potPos <= Len(potentialAllocations)
  /\ remainingCapacity > 0
  /\ LET it == sortedItems[itemPos]
         m == potentialAllocations[potPos].member
         availableCapacity == getAvailableCapacity(teamMembers[m])
         amount == allocationAmount(remainingCapacity, availableCapacity)
     IN IF availableCapacity > 0 /\ Meaningful(amount)
        THEN /\ teamMembers' = [teamMembers EXCEPT
                  ![m].allocatedCapacity = @ + amount,
                  ![m].assignments = Append(@, [item |-> roadmapItems[it].name,
                                                allocation |-> amount,
                                                percentage |-> Percentage(amount)])]
             /\ roadmapItems' = [roadmapItems EXCEPT
                  ![it].assignedMembers = Append(@, [member |-> teamMembers[m].name,
                                                     allocation |-> amount,
                                                     percentage |-> Percentage(amount)])]
             /\ allocations' = Append(allocations,
                                      Allocation(m, it, amount, teamMembers, roadmapItems))
             /\ remainingCapacity' = remainingCapacity - amount
        ELSE UNCHANGED <<teamMembers, roadmapItems, allocations, remainingCapacity>>
  /\ potPos' = potPos + 1
  /\ UNCHANGED <<pc, sortedItems, itemPos, potentialAllocations, report, returned>>
  /\ UNCHANGED serverVars
  /\ UNCHANGED inputVars

\* variant: the last branch tests ratio < 0.3 and nothing is returned otherwise
getItemStatus_NoFallthrough(it, allocatedCapacity) ==
  LET ratio == JSDiv(allocatedCapacity, getRequiredCapacity(it))
  IN IF QuotGE(ratio, 9, 10) THEN "fully-staffed"
     ELSE IF QuotGE(ratio, 6, 10) THEN "adequately-staffed"
     ELSE IF QuotGE(ratio, 3, 10) THEN "under-staffed"
     ELSE IF QuotLT(ratio, 3, 10) THEN "not-staffed"
     ELSE "undefined"

\* getItemStatus(item, allocatedCapacity)
getItemStatus(it, allocatedCapacity) ==
  LET ratio == JSDiv(allocatedCapacity, getRequiredCapacity(it))
  IN IF QuotGE(ratio, 9, 10) THEN "fully-staffed"
     ELSE IF QuotGE(ratio, 6, 10) THEN "adequately-staffed"
     ELSE IF QuotGE(ratio, 3, 10) THEN "under-staffed"
     ELSE "not-staffed"

\* allocateItem, line 85, when the loop is left (exhausted, or break)
\* variant: the loop over sortedItems does not move on to the next item
AllocateItemEnd_NoAdvance ==
  /\ pc = "walk"
  /\ (potPos > Len(potentialAllocations) \/ remainingCapacity <= 0)
  /\ LET it == sortedItems[itemPos]
         requiredCapacity == getRequiredCapacity(roadmapItems[it])
     IN roadmapItems' = [roadmapItems EXCEPT ![it].allocationStatus =
          getItemStatus(roadmapItems[it], requiredCapacity - remainingCapacity)]
  /\ itemPos' = itemPos
  /\ pc' = "items"
  /\ UNCHANGED <<teamMembers, allocations, sortedItems, potentialAllocations, potPos,
                 remainingCapacity, report, returned>>
  /\ UNCHANGED serverVars
  /\ UNCHANGED inputVars

AllocateItemEnd ==
  /\ pc = "walk"
  /\ (potPos > Len(potentialAllocations) \/ remainingCapacity <= 0)
  /\ LET it == sortedItems[itemPos]
         requiredCapacity == getRequiredCapacity(roadmapItems[it])
     IN roadmapItems' = [roadmapItems EXCEPT ![it].allocationStatus =
          getItemStatus(roadmapItems[it], requiredCapacity - remainingCapacity)]
  /\ itemPos' = itemPos + 1
  /\ pc' = "items"
  /\ UNCHANGED <<teamMembers, allocations, sortedItems, potentialAllocations, potPos,
                 remainingCapacity, report, returned>>
  /\ UNCHANGED serverVars
  /\ UNCHANGED inputVars

\* ------------------------------------------------------- generateReport()
\* the role label and keyword list analyzeMissingFTETypes uses per platform
RoleName(p) ==
  CASE p = "ios" -> "iOS Developer"
    [] p = "android" -> "Android Developer"
    [] p = "web" -> "Web Developer"
    [] p = "backend" -> "Backend Developer"

\* variant: the matching members' whole capacity is counted, allocated or not
getAvailableCapacityForSkills_Capacity(skills, members) ==
  LET hasRelevantSkill(m) ==
        \E k \in DOMAIN skills : \E i \in DOMAIN m.skills : FuzzyMatch(m.skills[i], skills[k])
  IN SumSeq([i \in DOMAIN members |->
        IF hasRelevantSkill(members[i]) THEN members[i].capacity ELSE 0])

\* getAvailableCapacityForSkills(skills): bidirectional substring match
getAvailableCapacityForSkills(skills, members) ==
  LET hasRelevantSkill(m) ==
        \E k \in DOMAIN skills : \E i \in DOMAIN m.skills : FuzzyMatch(m.skills[i], skills[k])
  IN SumSeq([i \in DOMAIN members |->
        IF hasRelevantSkill(members[i]) THEN getAvailableCapacity(members[i]) ELSE 0])

\* missingTypes[type] = (missingTypes[type] || 0) + shortage, keeping the
\* order in which the keys were first set
AddShortage(missingTypes, type, shortage) ==
  IF \E k \in DOMAIN missingTypes : missingTypes[k].type = type
  THEN [k \in DOMAIN missingTypes |->
          IF missingTypes[k].type = type
          THEN [missingTypes[k] EXCEPT !.count = @ + shortage]
          ELSE missingTypes[k]]
  ELSE Append(missingTypes, [type |-> type, count |-> shortage])

\* analyzeMissingFTETypes(unstaffedItems); a shortage is in units of
\* 1/(13 * One): neededFTE - availableCapacity = (effort*One - 13*available)/(13*One)
RECURSIVE MissingFrom(_, _, _, _)
MissingFrom(unstaffedItems, i, p, missingTypes) ==
  IF i > Len(unstaffedItems) THEN missingTypes
  ELSE IF p > Len(Platforms) THEN MissingFrom(unstaffedItems, i + 1, 1, missingTypes)
  ELSE LET effort == unstaffedItems[i].effortBreakdown
           platform == Platforms[p]
           shortage == Max2(0, (effort[platform] * One)
                               - 13 * getAvailableCapacityForSkills(platformSkills[platform], teamMembers))
       IN IF effort.present /\ effort[platform] > 0 /\ shortage > 0
          THEN MissingFrom(unstaffedItems, i, p + 1,
                           AddShortage(missingTypes, RoleName(platform), shortage))
          ELSE MissingFrom(unstaffedItems, i, p + 1, missingTypes)

analyzeMissingFTETypes(unstaffedItems) == MissingFrom(unstaffedItems, 1, 1, << >>)

Recommendation(kind, count, types) == [kind |-> kind, count |-> count, types |-> types]

\* variant: the under-staffed summary is pushed before the not-staffed block
generateRecommendations_UnderFirst(itemsByStatus, underUtilized, overUtilized) ==
  LET notStaffed == itemsByStatus["not-staffed"]
      missingFTETypes == analyzeMissingFTETypes(notStaffed)
      r1 == IF Len(notStaffed) > 0
            THEN <<Recommendation("not-staffed", Len(notStaffed), << >>)>>
                 \o (IF Len(missingFTETypes) > 0
                     THEN <<Recommendation("missing-fte", Len(missingFTETypes), missingFTETypes)>>
                     ELSE << >>)
            ELSE << >>
      r2 == IF Len(itemsByStatus["under-staffed"]) > 0
            THEN <<Recommendation("under-staffed", Len(itemsByStatus["under-staffed"]), << >>)>>
            ELSE << >>
      r3 == IF Len(underUtilized) > 0
            THEN <<Recommendation("under-utilized", Len(underUtilized), << >>)>>
            ELSE << >>
      r4 == IF Len(overUtilized) > 0
            THEN <<Recommendation("over-utilized", Len(overUtilized), << >>)>>
            ELSE << >>
      recommendations == r2 \o r1 \o r3 \o r4
  IN IF Len(recommendations) = 0
     THEN <<Recommendation("well-balanced", 0, << >>)>>
     ELSE recommendations

\* variant: no success message when nothing else applies
generateRecommendations_NoFallback(itemsByStatus, underUtilized, overUtilized) ==
  LET notStaffed == itemsByStatus["not-staffed"]
      missingFTETypes == analyzeMissingFTETypes(notStaffed)
  IN (IF Len(notStaffed) > 0
      THEN <<Recommendation("not-staffed", Len(notStaffed), << >>)>>
           \o (IF Len(missingFTETypes) > 0
               THEN <<Recommendation("missing-fte", Len(missingFTETypes), missingFTETypes)>>
               ELSE << >>)
      ELSE << >>)
     \o (IF Len(itemsByStatus["under-staffed"]) > 0
         THEN <<Recommendation("under-staffed", Len(itemsByStatus["under-staffed"]), << >>)>>
         ELSE << >>)
     \o (IF Len(underUtilized) > 0
         THEN <<Recommendation("under-utilized", Len(underUtilized), << >>)>>
         ELSE << >>)
     \o (IF Len(overUtilized) > 0
         THEN <<Recommendation("over-utilized", Len(overUtilized), << >>)>>
         ELSE << >>)

\* generateRecommendations(itemsByStatus, underUtilized, overUtilized)
generateRecommendations(itemsByStatus, underUtilized, overUtilized) ==
  LET notStaffed == itemsByStatus["not-staffed"]
      missingFTETypes == analyzeMissingFTETypes(notStaffed)
      r1 == IF Len(notStaffed) > 0
            THEN <<Recommendation("not-staffed", Len(notStaffed), << >>)>>
                 \o (IF Len(missingFTETypes) > 0
                     THEN <<Recommendation("missing-fte", Len(missingFTETypes), missingFTETypes)>>
                     ELSE << >>)
            ELSE << >>
      r2 == IF Len(itemsByStatus["under-staffed"]) > 0
            THEN <<Recommendation("under-staffed", Len(itemsByStatus["under-staffed"]), << >>)>>
            ELSE << >>
      r3 == IF Len(underUtilized) > 0
            THEN <<Recommendation("under-utilized", Len(underUtilized), << >>)>>
            ELSE << >>
      r4 == IF Len(overUtilized) > 0
            THEN <<Recommendation("over-utilized", Len(overUtilized), << >>)>>
            ELSE << >>
      recommendations == r1 \o r2 \o r3 \o r4
  IN IF Len(recommendations) = 0
     THEN <<Recommendation("well-balanced", 0, << >>)>>
     ELSE recommendations

\* Math.round((totalAllocatedCapacity / totalTeamCapacity) * 100)
utilizationRate(totalAllocatedCapacity, totalTeamCapacity) ==
  LET q == JSDiv(totalAllocatedCapacity, totalTeamCapacity)
  IN IF q.kind = "num"
     THEN [kind |-> "num", value |-> RoundDiv(q.n * 100, q.d)]
     ELSE [kind |-> q.kind, value |-> 0]

\* variant: a zero capacity replaced by 1.0 before dividing
IsUnderUtilized_DefaultOne(m) ==
  QuotLT(JSDiv(m.allocatedCapacity, IF m.capacity = 0 THEN One ELSE m.capacity), 7, 10)

\* the members filter of underUtilized: allocatedCapacity / capacity < 0.7
IsUnderUtilized(m) == QuotLT(JSDiv(m.allocatedCapacity, m.capacity), 7, 10)

\* the members filter of overUtilized: allocatedCapacity / capacity > 0.95
IsOverUtilized(m) == QuotGT(JSDiv(m.allocatedCapacity, m.capacity), 95, 100)

\* roadmapItems.filter(item => item.allocationStatus === status)
ItemsWithStatus(status) == SelectSeq(roadmapItems, LAMBDA it : it.allocationStatus = status)

\* { ...item, requiredCapacity, totalAllocation }
EnhancedItem(it) ==
  [item |-> it, requiredCapacity |-> getRequiredCapacity(it),
   totalAllocation |-> getTotalAllocation(it)]

\* generateReport(): totals in hundredths (Math.round(x * 100) / 100);
\* teamMembers, roadmapItems, underUtilized and overUtilized hold references
\* to the caller's objects, kept here as indices
generateReport ==
  LET totalTeamCapacity == SumSeq([i \in DOMAIN teamMembers |-> teamMembers[i].capacity])
      totalAllocatedCapacity ==
        SumSeq([i \in DOMAIN teamMembers |-> teamMembers[i].allocatedCapacity])
      itemsByStatus == [st \in {Statuses[k] : k \in DOMAIN Statuses} |-> ItemsWithStatus(st)]
      underUtilized == SelectSeq([i \in DOMAIN teamMembers |-> i],
                                 LAMBDA i : IsUnderUtilized(teamMembers[i]))
      overUtilized == SelectSeq([i \in DOMAIN teamMembers |-> i],
                                LAMBDA i : IsOverUtilized(teamMembers[i]))
  IN [summary |->
        [totalTeamCapacity |-> RoundDiv(totalTeamCapacity * 100, One),
         totalAllocatedCapacity |-> RoundDiv(totalAllocatedCapacity * 100, One),
         utilizationRate |-> utilizationRate(totalAllocatedCapacity, totalTeamCapacity),
         itemsCount |-> Len(roadmapItems),
         fullyStaffedCount |-> Len(itemsByStatus["fully-staffed"]),
         totalAssignments |-> Len(allocations)],
      allocations |-> [k \in DOMAIN allocations |->
        [member |-> teamMembers[allocations[k].member].name,
         item |-> roadmapItems[allocations[k].item].name,
         allocation |-> allocations[k].allocation,
         score |-> allocations[k].score]],
      itemsByStatus |-> [st \in DOMAIN itemsByStatus |->
        [k \in DOMAIN itemsByStatus[st] |-> EnhancedItem(itemsByStatus[st][k])]],
      underUtilized |-> underUtilized,
      overUtilized |-> overUtilized,
      recommendations |-> generateRecommendations(itemsByStatus, underUtilized, overUtilized)]

\* res.json(report) / the caller reading the report on return: the references
\* are followed at that moment
Serialize(r) ==
  [summary |-> r.summary,
   allocations |-> r.allocations,
   teamMembers |-> teamMembers,
   roadmapItems |-> roadmapItems,
   itemsByStatus |-> r.itemsByStatus,
   underUtilized |-> [k \in DOMAIN r.underUtilized |-> teamMembers[r.underUtilized[k]]],
   overUtilized |-> [k \in DOMAIN r.overUtilized |-> teamMembers[r.overUtilized[k]]],
   recommendations |-> r.recommendations]

\* optimize, line 31: return this.generateReport()
OptimizeReturn ==
  /\ pc = "items"
  /\ itemPos > Len(sortedItems)
  /\ report' = generateReport
  /\ returned' = Append(returned, Serialize(generateReport))
  /\ pc' = "idle"
  /\ UNCHANGED <<teamMembers, roadmapItems, allocations, sortedItems, itemPos,
                 potentialAllocations, potPos, remainingCapacity>>
  /\ UNCHANGED serverVars
  /\ UNCHANGED inputVars

Next ==
  \/ OptimizeStart
  \/ AllocateItemBegin
  \/ AllocateItemStep
  \/ AllocateItemEnd
  \/ OptimizeReturn

Spec == Init /\ [][Next]_vars

\* ------------------------------------------------------------ the caller
\* Between two optimize() calls on the same objects the caller changes an
\* input: the capacity field of the first member is set to 0.
CallerSetCapacity ==
  /\ pc = "idle"
  /\ Len(returned) >= 1
  /\ Len(returned) < MaxRuns
  /\ teamMembers # << >>
  /\ teamMembers[1].capacity > 0
  /\ teamMembers' = [teamMembers EXCEPT ![1].capacity = 0]
  /\ UNCHANGED <<roadmapItems, allocations, pc, sortedItems, itemPos,
                 potentialAllocations, potPos, remainingCapacity, report, returned>>
  /\ UNCHANGED serverVars
  /\ UNCHANGED inputVars

NextCaller ==
  \/ OptimizeStart
  \/ AllocateItemBegin
  \/ AllocateItemStep
  \/ AllocateItemEnd
  \/ OptimizeReturn
  \/ CallerSetCapacity

SpecCaller == Init /\ [][NextCaller]_vars

\* ------------------------------------------------- scoring on its own
\* new Allocation(member, item, fraction) called directly, as the tests of
\* tests/models.test.js do: two members and two items, each pair scored at
\* each fraction.
ScoreLevels == <<"Junior", "Senior">>
ScoreSkills == << << >>, <<"React">>, <<"React", "CSS">> >>
ScoreRequired == << << >>, <<"React">>, <<"React", "CSS">>,
                    <<"React", "CSS", "Python", "Node.js">> >>
ScoreMinLevels == <<"Junior", "Senior">>
ScoreComplexities == {3, 4}
ScoreFractions == {(One * 3) \div 10, One \div 2}

ScoreMember(name, level, skills) ==
  TeamMember(name, level, skills, One, <<"Frontend">>, <<"Leadership">>)

ScoreItem(name, complexity, requiredSkills, minLevel) ==
  RoadmapItem(name, 3, complexity, requiredSkills, "Frontend", minLevel,
              <<"Leadership">>, NoEffort)

InitScore ==
  /\ \E la, lb \in DOMAIN ScoreLevels, sa, sb \in DOMAIN ScoreSkills :
       teamMembers = << ScoreMember(MemberNames[1], ScoreLevels[la], ScoreSkills[sa]),
                        ScoreMember(MemberNames[2], ScoreLevels[lb], ScoreSkills[sb]) >>
  /\ \E ca, cb \in ScoreComplexities, ra, rb \in DOMAIN ScoreRequired,
        ma, mb \in DOMAIN ScoreMinLevels :
       roadmapItems = << ScoreItem(ItemNames[1], ca, ScoreRequired[ra], ScoreMinLevels[ma]),
                         ScoreItem(ItemNames[2], cb, ScoreRequired[rb], ScoreMinLevels[mb]) >>
  /\ allocations = << >>
  /\ pc = "score"
  /\ sortedItems = << >>
  /\ itemPos = 1
  /\ potentialAllocations = << >>
  /\ potPos = 1
  /\ remainingCapacity = 0
  /\ report = NoReport
  /\ returned = << >>
  /\ teamMembersFile = << >>
  /\ roadmapItemsFile = << >>
  /\ importCall = NoCall
  /\ response = NoResponse
  /\ memberData = << >>

\* new Allocation(m, it, f) for every member m and item it
ScoreAll(f) ==
  /\ pc = "score"
  /\ \A k \in DOMAIN allocations : allocations[k].allocation # f
  /\ allocations' = allocations \o
       << Allocation(1, 1, f, teamMembers, roadmapItems),
          Allocation(1, 2, f, teamMembers, roadmapItems),
          Allocation(2, 1, f, teamMembers, roadmapItems),
          Allocation(2, 2, f, teamMembers, roadmapItems) >>
  /\ UNCHANGED <<teamMembers, roadmapItems, pc, sortedItems, itemPos,
                 potentialAllocations, potPos, remainingCapacity, report, returned>>
  /\ UNCHANGED serverVars
  /\ UNCHANGED inputVars

NextScore == \E f \in ScoreFractions : ScoreAll(f)

SpecScore == InitScore /\ [][NextScore]_vars

\* ------------------------------------------------------ the web server
\* POST /api/sheets/import (server.js, lines 305-359).  The file holds what
\* earlier requests stored; a sheet yields members built by
\* parseTeamMemberRow, marked importedFrom: 'google-sheets'.
SheetNames == {"Alice", "alice", "Bob"}

StoredMember(name) == [name |-> name, level |-> "Senior", importedFrom |-> ""]

SheetMember(name) == [name |-> name, level |-> "Mid", importedFrom |-> "google-sheets"]

InitImport ==
  /\ teamMembers = << >>
  /\ roadmapItems = << >>
  /\ allocations = << >>
  /\ pc = "idle"
  /\ sortedItems = << >>
  /\ itemPos = 1
  /\ potentialAllocations = << >>
  /\ potPos = 1
  /\ remainingCapacity = 0
  /\ report = NoReport
  /\ returned = << >>
  /\ \E names \in SeqsUpTo(MaxStored, SheetNames) :
       teamMembersFile = [i \in DOMAIN names |-> StoredMember(names[i])]
  /\ roadmapItemsFile = << >>
  /\ importCall = NoCall
  /\ response = NoResponse
  /\ memberData = << >>

\* variant: names compared as written, without toLowerCase
IsNewName_CaseSensitive(m, existingMembers) ==
  \A j \in DOMAIN existingMembers : existingMembers[j].name # m.name

\* !existingNames.has(m.name.toLowerCase()), existingNames being the
\* lower-cased names of existingMembers
IsNewName(m, existingMembers) ==
  \A j \in DOMAIN existingMembers :
    toLowerCase(existingMembers[j].name) # toLowerCase(m.name)

\* the handler, from the sheet's members on; writeOk is what writeDataFile
\* returns
SheetsImport(importedMembers, replaceExisting, writeOk) ==
  /\ importCall' = [replaceExisting |-> replaceExisting, importedMembers |-> importedMembers]
  /\ IF importedMembers = << >>
     THEN /\ response' = [status |-> 400, imported |-> 0, total |-> 0]
          /\ UNCHANGED teamMembersFile
     ELSE LET existingMembers ==
                IF replaceExisting
                THEN importedMembers
                ELSE teamMembersFile \o
                       SelectSeq(importedMembers, LAMBDA m : IsNewName(m, teamMembersFile))
          IN IF writeOk
             THEN /\ teamMembersFile' = existingMembers
                  /\ response' = [status |-> 200, imported |-> Len(importedMembers),
                                  total |-> Len(existingMembers)]
             ELSE /\ response' = [status |-> 500, imported |-> 0, total |-> 0]
                  /\ UNCHANGED teamMembersFile
  /\ UNCHANGED <<teamMembers, roadmapItems, allocations, pc, sortedItems, itemPos,
                 potentialAllocations, potPos, remainingCapacity, report, returned,
                 roadmapItemsFile>>
  /\ UNCHANGED inputVars

NextImport ==
  \E names \in SeqsUpTo(MaxImported, SheetNames), replaceExisting, writeOk \in BOOLEAN :
    SheetsImport([i \in DOMAIN names |-> SheetMember(names[i])], replaceExisting, writeOk)

SpecImport == InitImport /\ [][NextImport]_vars

\* POST /api/optimize (server.js, lines 231-262): the stored records are
\* turned into TeamMember and RoadmapItem objects and optimize() runs on them.
\* A stored item is what POST /api/roadmap-items or the sheet import wrote;
\* the sheet import's records carry an effortBreakdown.
StoredTeamMember(name, p) ==
  [name |-> name, level |-> p.level, skills |-> p.skills, capacity |-> p.capacity,
   interests |-> p.interests, careerGoals |-> p.careerGoals]

StoredRoadmapItem(name, p) ==
  [name |-> name, size |-> p.size, complexity |-> p.complexity,
   requiredSkills |-> p.requiredSkills, domain |-> p.domain, minLevel |-> p.minLevel,
   careerOpportunities |-> p.careerOpportunities, effortBreakdown |-> p.effortBreakdown]

InitServer ==
  /\ teamMembers = << >>
  /\ roadmapItems = << >>
  /\ allocations = << >>
  /\ pc = "idle"
  /\ sortedItems = << >>
  /\ itemPos = 1
  /\ potentialAllocations = << >>
  /\ potPos = 1
  /\ remainingCapacity = 0
  /\ report = NoReport
  /\ returned = << >>
  /\ \E team \in SeqsUpTo(MaxMembers, DOMAIN MemberPool) :
       teamMembersFile = [i \in DOMAIN team |-> StoredTeamMember(MemberNames[i], MemberPool[team[i]])]
  /\ \E its \in SeqsUpTo(MaxItems, DOMAIN ItemPool) :
       roadmapItemsFile = [i \in DOMAIN its |-> StoredRoadmapItem(ItemNames[i], ItemPool[its[i]])]
  /\ importCall = NoCall
  /\ response = NoResponse
  /\ memberData = << >>

\* data => new TeamMember(data.name, data.level, data.skills, data.capacity,
\*                        data.interests, data.careerGoals)
MemberFromStored(data) ==
  TeamMember(data.name, data.level, data.skills, data.capacity, data.interests,
             data.careerGoals)

\* data => new RoadmapItem(data.name, data.description, data.size,
\*   data.complexity, data.requiredSkills, data.domain, data.minLevel,
\*   data.careerOpportunities): data.effortBreakdown is not passed on
ItemFromStored(data) ==
  RoadmapItem(data.name, data.size, data.complexity, data.requiredSkills, data.domain,
              data.minLevel, data.careerOpportunities, NoEffort)

\* the handler up to the first loop of optimize(): 400 when a file is empty,
\* else fresh objects, the reset (a no-op on fresh objects) and the sort
PostOptimize ==
  /\ pc = "idle"
  /\ Len(returned) < MaxRuns
  /\ IF teamMembersFile = << >> \/ roadmapItemsFile = << >>
     THEN /\ response' = [status |-> 400, imported |-> 0, total |-> 0]
          /\ response # response'
          /\ UNCHANGED <<teamMembers, roadmapItems, allocations, pc, sortedItems, itemPos>>
     ELSE LET members == [i \in DOMAIN teamMembersFile |-> MemberFromStored(teamMembersFile[i])]
              items == [i \in DOMAIN roadmapItemsFile |-> ItemFromStored(roadmapItemsFile[i])]
          IN /\ teamMembers' = [i \in DOMAIN members |-> ResetMember(members[i])]
             /\ roadmapItems' = [i \in DOMAIN items |-> ResetItem(items[i])]
             /\ allocations' = << >>
             /\ sortedItems' = SortDesc([i \in DOMAIN items |-> i],
                                        [i \in DOMAIN items |-> items[i].priority])
             /\ itemPos' = 1
             /\ pc' = "items"
             /\ UNCHANGED response
  /\ UNCHANGED <<potentialAllocations, potPos, remainingCapacity, report, returned,
                 teamMembersFile, roadmapItemsFile, importCall>>
  /\ UNCHANGED inputVars

NextServer ==
  \/ PostOptimize
  \/ AllocateItemBegin
  \/ AllocateItemStep
  \/ AllocateItemEnd
  \/ OptimizeReturn

SpecServer == InitServer /\ [][NextServer]_vars

\* ------------------------------------------------ the command-line input
\* InputCollector.collectTeamMembers (input.js, lines 10-64).  The answers and
\* the fields built from them are kept with their JavaScript type, so that a
\* field can be seen to hold a value of another type.
JSArray(items) == [type |-> "array", items |-> items]
JSNumber(value) == [type |-> "number", value |-> value]
JSString(chars) == [type |-> "string", chars |-> chars]

EnteredSkills == {<< >>, <<"React">>, <<"React", "CSS">>}
EnteredCapacities == {0, One \div 2, One}
EnteredInterests == {<< >>, <<"Frontend">>}

InitInput ==
  /\ teamMembers = << >>
  /\ roadmapItems = << >>
  /\ allocations = << >>
  /\ pc = "idle"
  /\ sortedItems = << >>
  /\ itemPos = 1
  /\ potentialAllocations = << >>
  /\ potPos = 1
  /\ remainingCapacity = 0
  /\ report = NoReport
  /\ returned = << >>
  /\ teamMembersFile = << >>
  /\ roadmapItemsFile = << >>
  /\ importCall = NoCall
  /\ response = NoResponse
  /\ memberData = << >>

\* new TeamMember(memberData.name, memberData.skills, memberData.capacity,
\* memberData.interests) against the constructor's parameters (name, level,
\* skills, capacity, interests = [], careerGoals = [])
MemberFromAnswers(data) ==
  TeamMember(data.name, data.skills, data.capacity, data.interests,
             JSArray(<< >>), JSArray(<< >>))

\* one round of the while loop: the four prompts, the constructor, the push
CollectTeamMember(name, skills, capacity, interests) ==
  /\ Len(teamMembers) < MaxMembers
  /\ LET data == [name |-> JSString(name), skills |-> JSArray(skills),
                  capacity |-> JSNumber(capacity), interests |-> JSArray(interests)]
     IN /\ memberData' = Append(memberData, data)
        /\ teamMembers' = Append(teamMembers, MemberFromAnswers(data))
  /\ UNCHANGED <<roadmapItems, allocations, pc, sortedItems, itemPos,
                 potentialAllocations, potPos, remainingCapacity, report, returned>>
  /\ UNCHANGED serverVars

NextInput ==
  \E skills \in EnteredSkills, capacity \in EnteredCapacities, interests \in EnteredInterests :
    CollectTeamMember(MemberNames[Len(teamMembers) + 1], skills, capacity, interests)

SpecInput == InitInput /\ [][NextInput]_vars

\* ------------------------------------------ the terms of one score
\* new Allocation(member, item, fraction) for one member and one item, the
\* member and the item drawn so that every term of the score takes each of
\* its values.
TermInterests == {<< >>, <<"Frontend">>}
TermOpportunities == {<< >>, <<"Leadership">>}
TermEfforts == {NoEffort, Effort(2, 0, 2, 2)}

InitTerms ==
  /\ \E l \in DOMAIN ScoreLevels, s \in DOMAIN ScoreSkills, interests \in TermInterests :
       teamMembers = << TeamMember(MemberNames[1], ScoreLevels[l], ScoreSkills[s], One,
                                   interests, <<"Leadership">>) >>
  /\ \E c \in ScoreComplexities, r \in DOMAIN ScoreRequired, m \in DOMAIN ScoreMinLevels,
        opportunities \in TermOpportunities, effort \in TermEfforts :
       roadmapItems = << RoadmapItem(ItemNames[1], 3, c, ScoreRequired[r], "Frontend",
                                     ScoreMinLevels[m], opportunities, effort) >>
  /\ allocations = << >>
  /\ pc = "score"
  /\ sortedItems = << >>
  /\ itemPos = 1
  /\ potentialAllocations = << >>
  /\ potPos = 1
  /\ remainingCapacity = 0
  /\ report = NoReport
  /\ returned = << >>
  /\ teamMembersFile = << >>
  /\ roadmapItemsFile = << >>
  /\ importCall = NoCall
  /\ response = NoResponse
  /\ memberData = << >>

\* new Allocation(member, item, f)
ScoreOne(f) ==
  /\ pc = "score"
  /\ \A k \in DOMAIN allocations : allocations[k].allocation # f
  /\ allocations' = Append(allocations, Allocation(1, 1, f, teamMembers, roadmapItems))
  /\ UNCHANGED <<teamMembers, roadmapItems, pc, sortedItems, itemPos,
                 potentialAllocations, potPos, remainingCapacity, report, returned>>
  /\ UNCHANGED serverVars
  /\ UNCHANGED inputVars

NextTerms == \E f \in ScoreFractions : ScoreOne(f)

SpecTerms == InitTerms /\ [][NextTerms]_vars

\* ------------------------------------------- required capacity on its own
\* item.getRequiredCapacity() called on one item, as allocateItem does in its
\* first two lines, for every size and complexity of the 1-5 scales and for
\* well-formed and malformed effortBreakdown objects.
CapacityScale == 1..5

CapacityEfforts ==
  {NoEffort, Effort(2, 0, 2, 2), Effort(0, 0, 0, 0), Effort(0, 0, 0, -3),
   EffortWithoutTotal(2, 0, 0, 0)}

InitCapacity ==
  /\ teamMembers = << >>
  /\ \E size, complexity \in CapacityScale, effort \in CapacityEfforts :
       roadmapItems = <<RoadmapItem(ItemNames[1], size, complexity, << >>, "", "Junior",
                                    << >>, effort)>>
  /\ allocations = << >>
  /\ pc = "capacity"
  /\ sortedItems = <<1>>
  /\ itemPos = 1
  /\ potentialAllocations = << >>
  /\ potPos = 1
  /\ remainingCapacity = 0
  /\ report = NoReport
  /\ returned = << >>
  /\ teamMembersFile = << >>
  /\ roadmapItemsFile = << >>
  /\ importCall = NoCall
  /\ response = NoResponse
  /\ memberData = << >>

\* const requiredCapacity = item.getRequiredCapacity();
\* let remainingCapacity = requiredCapacity;
RequiredCapacityCall ==
  /\ pc = "capacity"
  /\ remainingCapacity' = getRequiredCapacity(roadmapItems[sortedItems[itemPos]])
  /\ pc' = "capacity-done"
  /\ UNCHANGED <<teamMembers, roadmapItems, allocations, sortedItems, itemPos,
                 potentialAllocations, potPos, report, returned>>
  /\ UNCHANGED serverVars
  /\ UNCHANGED inputVars

NextCapacity == RequiredCapacityCall

SpecCapacity == InitCapacity /\ [][NextCapacity]_vars

\* ------------------------------------------------------------- properties
\* an optimize() call has returned and no other is under way
Done == pc = "idle" /\ Len(returned) > 0

StatusSet == {Statuses[k] : k \in DOMAIN Statuses}

NoCapacity == \A i \in DOMAIN teamMembers : teamMembers[i].capacity = 0

\* C1: every member's allocatedCapacity stays within 0..capacity, in every
\* state of a run (so after each commit step) and after optimize() returns.
C1_CapacityInvariant ==
  \A i \in DOMAIN teamMembers :
    /\ teamMembers[i].allocatedCapacity >= 0
    /\ teamMembers[i].allocatedCapacity <= teamMembers[i].capacity

\* C1 witness: a commit has used up a member's whole (positive) capacity
C1_Witness ==
  /\ pc = "walk"
  /\ \E k \in DOMAIN allocations :
       /\ teamMembers[allocations[k].member].capacity > 0
       /\ teamMembers[allocations[k].member].allocatedCapacity
            = teamMembers[allocations[k].member].capacity

\* C2 (as claimed): no committed allocation exceeds half of the capacity of
\* the member it is committed to: amount <= 0.5 * member.capacity.
C2_PerItemMemberCap ==
  \A k \in DOMAIN allocations :
    2 * allocations[k].allocation <= teamMembers[allocations[k].member].capacity

\* C3: every committed allocation is above 0.1, in the allocation list, in
\* member.assignments and in item.assignedMembers.
C3_MinimumIncrement ==
  /\ \A k \in DOMAIN allocations : allocations[k].allocation * 10 > One
  /\ \A i \in DOMAIN teamMembers : \A k \in DOMAIN teamMembers[i].assignments :
       teamMembers[i].assignments[k].allocation * 10 > One
  /\ \A i \in DOMAIN roadmapItems : \A k \in DOMAIN roadmapItems[i].assignedMembers :
       roadmapItems[i].assignedMembers[k].allocation * 10 > One

\* C3 witness: a run has returned in which some item needed 0.1 or less and
\* another commit was made (so the threshold was applied both ways)
C3_Witness ==
  /\ Done
  /\ allocations # << >>
  /\ \E i \in DOMAIN roadmapItems :
       /\ getRequiredCapacity(roadmapItems[i]) > 0
       /\ getRequiredCapacity(roadmapItems[i]) * 10 <= One
       /\ roadmapItems[i].assignedMembers = << >>

\* C4: in a returned report every input item is in exactly one of the four
\* status buckets, and the bucket sizes add up to the number of items.
C4_StatusPartition ==
  Done =>
    /\ DOMAIN report.itemsByStatus = StatusSet
    /\ SumSeq([k \in DOMAIN Statuses |-> Len(report.itemsByStatus[Statuses[k]])])
         = Len(roadmapItems)
    /\ \A i \in DOMAIN roadmapItems :
         Cardinality(UNION {{<<st, k>> : k \in {n \in DOMAIN report.itemsByStatus[st] :
                               report.itemsByStatus[st][n].item.name = roadmapItems[i].name}}
                            : st \in StatusSet}) = 1

\* C4 witness: a report whose items fall into two different buckets
C4_Witness ==
  /\ Done
  /\ \E s1, s2 \in StatusSet :
       /\ s1 # s2
       /\ report.itemsByStatus[s1] # << >>
       /\ report.itemsByStatus[s2] # << >>

\* C5: all optimize() calls on the same lists return the same report,
\* whatever the engine-owned fields held when the call started.
C5_Idempotent ==
  \A i, j \in DOMAIN returned : returned[i] = returned[j]

\* C5 witness: a second call has returned, having started from the fields
\* the first call left behind (some capacity allocated)
C5_Witness ==
  /\ Done
  /\ Len(returned) >= 2
  /\ returned[1].allocations # << >>

\* C6: the recommendations of every returned report are non-empty.
C6_RecommendationsNonEmpty ==
  \A k \in DOMAIN returned : Len(returned[k].recommendations) > 0

\* C6 witness: a report for an empty member list and an empty item list
C6_Witness ==
  /\ Done
  /\ teamMembers = << >>
  /\ roadmapItems = << >>

\* C7: with no capacity in the team (no members, or every capacity 0) no
\* allocation is ever committed and the report has allocations = [],
\* totalTeamCapacity = 0 and totalAllocatedCapacity = 0.
C7_NoCapacityReport ==
  NoCapacity =>
    /\ allocations = << >>
    /\ \A k \in DOMAIN returned :
         /\ returned[k].allocations = << >>
         /\ returned[k].summary.totalTeamCapacity = 0
         /\ returned[k].summary.totalAllocatedCapacity = 0

\* C7 witness: a report for members that all have capacity 0 and some items
C7_Witness ==
  /\ Done
  /\ NoCapacity
  /\ teamMembers # << >>
  /\ roadmapItems # << >>

\* C8 (as claimed): utilizationRate is a number, the rounded
\* totalAllocatedCapacity / totalTeamCapacity * 100 when the team has
\* capacity and 0 when it has none.
C8_UtilizationRateGuarded ==
  Done =>
    LET total == SumSeq([i \in DOMAIN teamMembers |-> teamMembers[i].capacity])
        allocated == SumSeq([i \in DOMAIN teamMembers |-> teamMembers[i].allocatedCapacity])
    IN /\ report.summary.utilizationRate.kind = "num"
       /\ total = 0 => report.summary.utilizationRate.value = 0
       /\ total > 0 => report.summary.utilizationRate.value = RoundDiv(allocated * 100, total)

\* C9: underUtilized is exactly the members with capacity # 0 and
\* allocatedCapacity/capacity < 0.7, overUtilized exactly those with
\* capacity # 0 and allocatedCapacity/capacity > 0.95; a member of capacity 0
\* is in neither.
C9_UtilizationSets ==
  Done =>
    LET under == {report.underUtilized[k] : k \in DOMAIN report.underUtilized}
        over == {report.overUtilized[k] : k \in DOMAIN report.overUtilized}
    IN /\ Cardinality(under) = Len(report.underUtilized)
       /\ Cardinality(over) = Len(report.overUtilized)
       /\ \A i \in DOMAIN teamMembers :
            /\ i \in under <=> /\ teamMembers[i].capacity # 0
                               /\ teamMembers[i].allocatedCapacity * 10 < 7 * teamMembers[i].capacity
            /\ i \in over <=> /\ teamMembers[i].capacity # 0
                              /\ teamMembers[i].allocatedCapacity * 100 > 95 * teamMembers[i].capacity

\* C9 witness: a report for a team with a member of capacity 0 and a member
\* that is listed as under- or over-utilized
C9_Witness ==
  /\ Done
  /\ \E i \in DOMAIN teamMembers : teamMembers[i].capacity = 0
  /\ Len(report.underUtilized) + Len(report.overUtilized) > 0

\* C10 (as claimed): after optimize() an item whose required capacity is zero
\* has no allocations and is 'fully-staffed'.
C10_ZeroRequiredFullyStaffed ==
  Done =>
    \A i \in DOMAIN roadmapItems :
      getRequiredCapacity(roadmapItems[i]) = 0 =>
        /\ roadmapItems[i].assignedMembers = << >>
        /\ roadmapItems[i].allocationStatus = "fully-staffed"


\* the probe fraction 0.3 of findPotentialAllocations
ProbeScore(i, it) == calculateScore(teamMembers[i], roadmapItems[it], (One * 3) \div 10)

C12_ReportImmutable ==
  Done =>
    \A k \in DOMAIN returned :
      /\ \A i \in DOMAIN teamMembers :
           /\ returned[k].teamMembers[i].allocatedCapacity = teamMembers[i].allocatedCapacity
           /\ returned[k].teamMembers[i].assignments = teamMembers[i].assignments
      /\ \A i \in DOMAIN roadmapItems :
           /\ returned[k].roadmapItems[i].assignedMembers = roadmapItems[i].assignedMembers
           /\ returned[k].roadmapItems[i].allocationStatus = roadmapItems[i].allocationStatus


\* the number of required skills of the item that the member has, and the
\* number the score divides it by
SkillMatches(a) ==
  CountSeq([i \in DOMAIN roadmapItems[a.item].requiredSkills |->
              hasSkill(teamMembers[a.member], roadmapItems[a.item].requiredSkills[i])])

SkillDivisor(a) == Max2(1, Len(roadmapItems[a.item].requiredSkills))

\* two scored allocations of one member at one fraction whose items differ in
\* nothing but their name and requiredSkills
SameButSkills(a, b) ==
  /\ a.member = b.member
  /\ a.allocation = b.allocation
  /\ [roadmapItems[a.item] EXCEPT !.name = "", !.requiredSkills = << >>]
       = [roadmapItems[b.item] EXCEPT !.name = "", !.requiredSkills = << >>]

ScoredPairs == {p \in (DOMAIN allocations) \X (DOMAIN allocations) : pc = "score"}

\* C13 (as claimed): for one member and one fraction, of two items that differ
\* only in requiredSkills, the one with MORE required skills matched by the
\* member scores strictly higher.
C13_MoreMatchesHigherScore ==
  \A p \in ScoredPairs :
    LET a == allocations[p[1]]
        b == allocations[p[2]]
    IN (SameButSkills(a, b) /\ SkillMatches(b) > SkillMatches(a)) => b.score > a.score

\* C13 (amended): for one member and one fraction, of two items that differ
\* only in requiredSkills, the one with the larger matched FRACTION
\* matches / max(1, #requiredSkills) scores strictly higher, and equal
\* fractions score equal.
C13_LargerFractionHigherScore ==
  \A p \in ScoredPairs :
    LET a == allocations[p[1]]
        b == allocations[p[2]]
    IN SameButSkills(a, b) =>
         /\ SkillMatches(b) * SkillDivisor(a) > SkillMatches(a) * SkillDivisor(b)
              => b.score > a.score
         /\ SkillMatches(b) * SkillDivisor(a) = SkillMatches(a) * SkillDivisor(b)
              => b.score = a.score

\* two items of different length are scored for one member, the one with
\* fewer matches having the larger matched fraction and the higher score
C13_Witness ==
  \E p \in ScoredPairs :
    LET a == allocations[p[1]]
        b == allocations[p[2]]
    IN /\ SameButSkills(a, b)
       /\ SkillMatches(b) > SkillMatches(a)
       /\ SkillMatches(a) > 0
       /\ SkillMatches(a) * SkillDivisor(b) > SkillMatches(b) * SkillDivisor(a)
       /\ a.score > b.score


\* two scored allocations of one item at one fraction whose members differ in
\* nothing but their name and level, the first below item.minLevel and the
\* second at or above it
UnderAndAtLevel(a, b) ==
  /\ a.item = b.item
  /\ a.allocation = b.allocation
  /\ [teamMembers[a.member] EXCEPT !.name = "", !.level = ""]
       = [teamMembers[b.member] EXCEPT !.name = "", !.level = ""]
  /\ getLevelWeight(teamMembers[a.member]) < LevelWeight(roadmapItems[a.item].minLevel)
  /\ getLevelWeight(teamMembers[b.member]) >= LevelWeight(roadmapItems[b.item].minLevel)

\* C14: for one item and one fraction, a member below item.minLevel scores
\* strictly lower than an otherwise equal member at or above it: the first
\* gets -20, the second +10, or +20 on an item of complexity >= 4 when the
\* member's weight is at least 1.3.
C14_LevelPenalty ==
  \A p \in ScoredPairs :
    LET a == allocations[p[1]]
        b == allocations[p[2]]
        extra == roadmapItems[b.item].complexity >= 4
                   /\ getLevelWeight(teamMembers[b.member]) >= 13
    IN UnderAndAtLevel(a, b) =>
         /\ a.score < b.score
         /\ b.score - a.score = (IF extra THEN 40 * 120 ELSE 30 * 120)

\* a Junior and a Senior with equal attributes are scored on a complex item
\* that asks for a Senior
C14_Witness ==
  \E p \in ScoredPairs :
    LET a == allocations[p[1]]
        b == allocations[p[2]]
    IN /\ UnderAndAtLevel(a, b)
       /\ roadmapItems[a.item].complexity >= 4
       /\ b.score - a.score = 40 * 120


\* while optimize() runs, the loop over sortedItems walks a permutation of the
\* items and the loop over the candidates walks distinct members
LoopsWellFormed ==
  /\ pc \in {"items", "walk"} =>
       /\ Len(sortedItems) = Len(roadmapItems)
       /\ {sortedItems[k] : k \in DOMAIN sortedItems} = DOMAIN roadmapItems
       /\ itemPos \in 1..(Len(sortedItems) + 1)
  /\ pc = "walk" =>
       /\ itemPos \in DOMAIN sortedItems
       /\ potPos \in 1..(Len(potentialAllocations) + 1)
       /\ \A j, k \in DOMAIN potentialAllocations :
            potentialAllocations[j].member = potentialAllocations[k].member => j = k

\* every step of a run moves one of the two loops forward by one position, or
\* starts the inner loop for the current item, and leaves the lists it walks
\* alone
LoopsAdvance ==
  pc # "idle" =>
    /\ sortedItems' = sortedItems
    /\ \/ pc = "items" /\ pc' = "walk" /\ itemPos \in DOMAIN sortedItems
            /\ itemPos' = itemPos /\ potPos' = 1
       \/ pc = "walk" /\ pc' = "walk" /\ itemPos' = itemPos /\ potPos' = potPos + 1
            /\ potentialAllocations' = potentialAllocations
       \/ pc = "walk" /\ pc' = "items" /\ itemPos' = itemPos + 1
       \/ pc = "items" /\ pc' = "idle" /\ itemPos = Len(sortedItems) + 1
            /\ Len(returned') = Len(returned) + 1

\* an upper bound on the steps a running call has left before it returns:
\* per item one step to start it, at most one per member and one to end it
StepsLeft ==
  LET perItem == Len(teamMembers) + 2
  IN CASE pc = "items" -> ((Len(sortedItems) + 1 - itemPos) * perItem) + 1
       [] pc = "walk" -> ((Len(sortedItems) - itemPos) * perItem) + 1
                           + (Len(potentialAllocations) + 1 - potPos) + 1
       [] OTHER -> 0

\* C15: optimize() terminates: every item is processed exactly once, within
\* an item every member is considered at most once, and every call that has
\* started returns a report.  Every step of a running call lowers the
\* non-negative number StepsLeft, which is 0 only when the call has returned,
\* and the step taken when the items are used up is the return.
C15_Terminates ==
  /\ []LoopsWellFormed
  /\ [](pc # "idle" <=> StepsLeft > 0)
  /\ [][LoopsAdvance /\ (pc # "idle" => (StepsLeft' >= 0 /\ StepsLeft' < StepsLeft))]_vars

\* a call over two items, with two candidates for one of them, has returned
C15_Witness ==
  /\ Done
  /\ Len(sortedItems) = 2
  /\ Len(potentialAllocations) = 2
  /\ itemPos = 3




\* the members a call without replaceExisting leaves in the file keep every
\* member stored before, in place, and add none whose lower-cased name is the
\* lower-cased name of a member stored before
KeepsAndSkips(old, new) ==
  /\ Len(new) >= Len(old)
  /\ SubSeq(new, 1, Len(old)) = old
  /\ \A k \in (Len(old) + 1)..Len(new) :
       \A j \in DOMAIN old : toLowerCase(new[k].name) # toLowerCase(old[j].name)

\* C16 (as claimed): an import with replaceExisting = false keeps every stored
\* member and adds no imported member whose name equals, case-insensitively,
\* that of a stored member; with replaceExisting = true the store becomes
\* exactly the imported list.
C16_ImportAsClaimed ==
  [][importCall' # NoCall =>
       IF importCall'.replaceExisting
       THEN teamMembersFile' = importCall'.importedMembers
       ELSE KeepsAndSkips(teamMembersFile, teamMembersFile')]_vars

\* C16 (amended): as claimed for replaceExisting = false; with
\* replaceExisting = true the store becomes exactly the imported list when
\* the import succeeds (the sheet yields at least one member and the file is
\* written), and is left as it was when the import is rejected or fails.
C16_ImportDedupe ==
  [][importCall' # NoCall =>
       /\ ~ importCall'.replaceExisting => KeepsAndSkips(teamMembersFile, teamMembersFile')
       /\ (importCall'.replaceExisting /\ response'.status = 200) =>
            teamMembersFile' = importCall'.importedMembers
       /\ response'.status = 200 => importCall'.importedMembers # << >>
       /\ response'.status # 200 => teamMembersFile' = teamMembersFile]_vars

\* a sheet with "alice" and "Bob" has been imported without replaceExisting
\* into a file that held "Alice": Alice is kept, alice skipped, Bob added
C16_Witness ==
  /\ importCall # NoCall
  /\ ~ importCall.replaceExisting
  /\ response.status = 200
  /\ importCall.importedMembers = <<SheetMember("alice"), SheetMember("Bob")>>
  /\ teamMembersFile = <<StoredMember("Alice"), SheetMember("Bob")>>


\* item i is processed before item j: higher priority first, and of two items
\* of equal priority the one that comes first in the caller's list
ProcessedBefore(i, j) ==
  \/ roadmapItems[i].priority > roadmapItems[j].priority
  \/ (roadmapItems[i].priority = roadmapItems[j].priority /\ i < j)

\* C17: items are processed in non-increasing priority order, items of equal
\* priority in the order of the caller's list: the loop walks sortedItems in
\* that order, the items already given a status in this run are those before
\* itemPos, and the allocations are committed in that order.
C17_PriorityOrder ==
  /\ pc \in {"items", "walk"} =>
       /\ \A j, k \in DOMAIN sortedItems :
            j < k => ProcessedBefore(sortedItems[j], sortedItems[k])
       /\ \A k \in DOMAIN sortedItems :
            k > itemPos => roadmapItems[sortedItems[k]].assignedMembers = << >>
       /\ Len(returned) = 0 =>
            \A k \in DOMAIN sortedItems :
              (k < itemPos) <=> (roadmapItems[sortedItems[k]].allocationStatus # "undefined")
  /\ \A a, b \in DOMAIN allocations :
       (pc # "score" /\ a < b /\ allocations[a].item # allocations[b].item) =>
         ProcessedBefore(allocations[a].item, allocations[b].item)

\* two items of equal priority have both been staffed, the first of the
\* caller's list first, the second with what the first left over
C17_Witness ==
  /\ Done
  /\ Len(roadmapItems) = 2
  /\ roadmapItems[1].priority = roadmapItems[2].priority
  /\ Len(allocations) >= 2
  /\ allocations[1].item = 1
  /\ allocations[Len(allocations)].item = 2
  /\ roadmapItems[1].allocationStatus # roadmapItems[2].allocationStatus


\* C18: the score of every committed allocation is calculateScore at the
\* amount committed, not at the probe fraction 0.3 the candidates are ranked
\* by; the two differ by (amount - 0.3) * 15, which is 3 * (amount - 0.3 One)
\* in score units over capacity units.
C18_CommittedScore ==
  /\ \A k \in DOMAIN allocations :
       pc # "score" =>
         LET a == allocations[k] IN
         /\ a.score = calculateScore(teamMembers[a.member], roadmapItems[a.item], a.allocation)
         /\ a.score - ProbeScore(a.member, a.item) = 3 * (a.allocation - ((One * 3) \div 10))
  /\ pc = "walk" =>
       \A c \in DOMAIN potentialAllocations :
         /\ potentialAllocations[c].score
              = ProbeScore(potentialAllocations[c].member, sortedItems[itemPos])
         /\ \A k \in DOMAIN allocations :
              (allocations[k].item = sortedItems[itemPos]
                 /\ allocations[k].member = potentialAllocations[c].member) =>
                allocations[k].score - potentialAllocations[c].score
                  = 3 * (allocations[k].allocation - ((One * 3) \div 10))

\* one allocation above the probe fraction and one below it are committed
C18_Witness ==
  /\ pc # "score"
  /\ \E j, k \in DOMAIN allocations :
       /\ allocations[j].allocation > (One * 3) \div 10
       /\ allocations[j].score > ProbeScore(allocations[j].member, allocations[j].item)
       /\ allocations[k].allocation < (One * 3) \div 10
       /\ allocations[k].score < ProbeScore(allocations[k].member, allocations[k].item)


\* the ratio (required - remaining) / required an item has achieved
AchievedRatio(item) == JSDiv(getTotalAllocation(item), getRequiredCapacity(item))

\* C19 (as claimed): after an item is processed its status follows the
\* achieved ratio r: 'fully-staffed' iff r >= 0.9, 'adequately-staffed' iff
\* 0.6 <= r < 0.9, 'under-staffed' iff 0.3 <= r < 0.6, 'not-staffed' iff
\* r < 0.3.
C19_StatusByRatio ==
  Done =>
    \A i \in DOMAIN roadmapItems :
      LET r == AchievedRatio(roadmapItems[i])
          status == roadmapItems[i].allocationStatus
      IN /\ status = "fully-staffed" <=> QuotGE(r, 9, 10)
         /\ status = "adequately-staffed" <=> (QuotGE(r, 6, 10) /\ QuotLT(r, 9, 10))
         /\ status = "under-staffed" <=> (QuotGE(r, 3, 10) /\ QuotLT(r, 6, 10))
         /\ status = "not-staffed" <=> QuotLT(r, 3, 10)


\* A_P: what the members whose skills match a keyword of platform p have left
\* after the allocation, in capacity units
RoleAvailable(p) ==
  LET matching == {i \in DOMAIN teamMembers :
                     \E s \in DOMAIN teamMembers[i].skills, k \in DOMAIN platformSkills[p] :
                       FuzzyMatch(teamMembers[i].skills[s], platformSkills[p][k])}
      left(i) == teamMembers[i].capacity - teamMembers[i].allocatedCapacity
  IN SumSeq([i \in DOMAIN teamMembers |-> IF i \in matching THEN left(i) ELSE 0])

\* the sum over the not-staffed items with positive effort for platform p of
\* max(0, effort[p]/13 - A_P), in units of 1/(13 * One)
RoleShortage(p) ==
  SumSeq([i \in DOMAIN roadmapItems |->
    IF /\ roadmapItems[i].allocationStatus = "not-staffed"
       /\ roadmapItems[i].effortBreakdown.present
       /\ roadmapItems[i].effortBreakdown[p] > 0
    THEN Max2(0, (roadmapItems[i].effortBreakdown[p] * One) - (13 * RoleAvailable(p)))
    ELSE 0])

\* the figures of the missing-FTE recommendation of the last report
ReportedMissing ==
  LET recs == {k \in DOMAIN report.recommendations :
                 report.recommendations[k].kind = "missing-fte"}
  IN IF recs = {} THEN << >>
     ELSE report.recommendations[CHOOSE k \in recs : TRUE].types

\* C20: the missing-FTE figure of each platform role is the sum, over the
\* not-staffed items with positive effort for it, of max(0, effort/13 - A_P);
\* a role is listed, once, exactly when that sum is positive; and producing
\* the report leaves the members as they were.
C20_MissingFTE ==
  /\ [](Done =>
         /\ \A k \in DOMAIN Platforms :
              LET listed == {n \in DOMAIN ReportedMissing :
                               ReportedMissing[n].type = RoleName(Platforms[k])}
              IN /\ Cardinality(listed) = (IF RoleShortage(Platforms[k]) > 0 THEN 1 ELSE 0)
                 /\ \A n \in listed : ReportedMissing[n].count = RoleShortage(Platforms[k])
         /\ \A n \in DOMAIN ReportedMissing :
              \E k \in DOMAIN Platforms : ReportedMissing[n].type = RoleName(Platforms[k]))
  /\ [][(pc = "items" /\ pc' = "idle") => teamMembers' = teamMembers]_vars

\* a report lists a backend shortage that is smaller than the item's backend
\* effort, because a backend member has some capacity left
C20_Witness ==
  /\ Done
  /\ RoleAvailable("backend") > 0
  /\ \E n \in DOMAIN ReportedMissing :
       /\ ReportedMissing[n].type = RoleName("backend")
       /\ ReportedMissing[n].count > 0
       /\ \E i \in DOMAIN roadmapItems :
            /\ roadmapItems[i].allocationStatus = "not-staffed"
            /\ roadmapItems[i].effortBreakdown.present
            /\ ReportedMissing[n].count < roadmapItems[i].effortBreakdown.backend * One


\* how many items of the current lists have the given status
StatusCount(status) ==
  Cardinality({i \in DOMAIN roadmapItems : roadmapItems[i].allocationStatus = status})

\* the kinds of message the last report should hold, in the fixed order, each
\* with the count its text prints
ExpectedKinds ==
  LET cond == [k \in 1..5 |->
        CASE k = 1 -> StatusCount("not-staffed") > 0
          [] k = 2 -> /\ StatusCount("not-staffed") > 0
                      /\ \E p \in DOMAIN Platforms : RoleShortage(Platforms[p]) > 0
          [] k = 3 -> StatusCount("under-staffed") > 0
          [] k = 4 -> \E i \in DOMAIN teamMembers : IsUnderUtilized(teamMembers[i])
          [] k = 5 -> \E i \in DOMAIN teamMembers : IsOverUtilized(teamMembers[i])]
      kind == <<"not-staffed", "missing-fte", "under-staffed", "under-utilized",
                "over-utilized">>
      count == <<StatusCount("not-staffed"),
                 Cardinality({p \in DOMAIN Platforms : RoleShortage(Platforms[p]) > 0}),
                 StatusCount("under-staffed"),
                 Cardinality({i \in DOMAIN teamMembers : IsUnderUtilized(teamMembers[i])}),
                 Cardinality({i \in DOMAIN teamMembers : IsOverUtilized(teamMembers[i])})>>
      pick == SelectSeq(<<1, 2, 3, 4, 5>>, LAMBDA k : cond[k])
  IN [n \in DOMAIN pick |-> [kind |-> kind[pick[n]], count |-> count[pick[n]]]]

\* C21: the recommendations of a report are, in this order, the not-staffed
\* summary, the missing-FTE breakdown, the under-staffed, under-utilized and
\* over-utilized summaries, each present exactly when its condition holds; the
\* success message is present exactly when none of them is, and then alone.
C21_RecommendationOrder ==
  Done =>
    LET got == [n \in DOMAIN report.recommendations |->
                  [kind |-> report.recommendations[n].kind,
                   count |-> report.recommendations[n].count]]
    IN IF ExpectedKinds = << >>
       THEN got = <<[kind |-> "well-balanced", count |-> 0]>>
       ELSE got = ExpectedKinds

\* a report with the not-staffed summary, the missing-FTE breakdown, the
\* under-staffed summary and a member summary, in that order
C21_Witness ==
  /\ Done
  /\ Len(report.recommendations) >= 4
  /\ report.recommendations[1].kind = "not-staffed"
  /\ report.recommendations[2].kind = "missing-fte"
  /\ report.recommendations[3].kind = "under-staffed"


\* the fields of a member and of an item that belong to the caller
MemberInput(m) ==
  [name |-> m.name, level |-> m.level, skills |-> m.skills, capacity |-> m.capacity,
   interests |-> m.interests, careerGoals |-> m.careerGoals]

ItemInput(it) ==
  [name |-> it.name, size |-> it.size, complexity |-> it.complexity,
   requiredSkills |-> it.requiredSkills, domain |-> it.domain, minLevel |-> it.minLevel,
   careerOpportunities |-> it.careerOpportunities, effortBreakdown |-> it.effortBreakdown,
   priority |-> it.priority]

\* C22: no step of optimize() changes a caller-owned field of a member or of
\* an item, nor the length or the order of the caller's two lists.
C22_OnlyEngineFields ==
  [][/\ [i \in DOMAIN teamMembers' |-> MemberInput(teamMembers'[i])]
          = [i \in DOMAIN teamMembers |-> MemberInput(teamMembers[i])]
     /\ [i \in DOMAIN roadmapItems' |-> ItemInput(roadmapItems'[i])]
          = [i \in DOMAIN roadmapItems |-> ItemInput(roadmapItems[i])]]_vars

\* a call has returned that processed the second item of the list first and
\* wrote engine-owned fields of members and items
C22_Witness ==
  /\ Done
  /\ sortedItems = <<2, 1>>
  /\ allocations # << >>
  /\ \E i \in DOMAIN teamMembers : teamMembers[i].allocatedCapacity > 0
  /\ \A i \in DOMAIN roadmapItems : roadmapItems[i].allocationStatus # "undefined"


\* C23 (as claimed): an effortBreakdown of a stored roadmap item is carried
\* onto the engine item POST /api/optimize builds, so that with total > 0 the
\* engine's required capacity is (total/12) * (1 + (complexity-1)*0.1).
C23_EffortCarried ==
  pc # "idle" =>
    \A i \in DOMAIN roadmapItemsFile :
      LET stored == roadmapItemsFile[i] IN
      (stored.effortBreakdown.present /\ stored.effortBreakdown.total > 0) =>
        /\ roadmapItems[i].effortBreakdown = stored.effortBreakdown
        /\ getRequiredCapacity(roadmapItems[i])
             = (stored.effortBreakdown.total * (9 + stored.complexity) * One) \div 120


\* C24 (as claimed): every member collectTeamMembers builds has the entered
\* skill list as skills, the entered number in [0,1] as capacity, the entered
\* interest list as interests, and a string as level.
C24_CollectedMembers ==
  \A i \in DOMAIN memberData :
    /\ teamMembers[i].name = memberData[i].name
    /\ teamMembers[i].skills = memberData[i].skills
    /\ teamMembers[i].capacity = memberData[i].capacity
    /\ teamMembers[i].interests = memberData[i].interests
    /\ teamMembers[i].level.type = "string"




\* C25: getRequiredCapacity() is (total/12) * (1 + (complexity-1)*0.1) when
\* an effortBreakdown with total > 0 is present, and the heuristic
\* (size/5) * (complexity/5) * 2 in every other case (no effortBreakdown, or
\* one whose total is missing, zero or negative); for size and complexity in
\* 1..5 the heuristic is at most 2.0.
C25_RequiredCapacity ==
  pc = "capacity-done" =>
    LET item == roadmapItems[1]
        effort == item.effortBreakdown
    IN IF effort.present /\ effort.totalGiven /\ effort.total > 0
       THEN remainingCapacity * 120 = effort.total * (9 + item.complexity) * One
       ELSE /\ remainingCapacity * 25 = item.size * item.complexity * 2 * One
            /\ remainingCapacity <= 2 * One

\* the heuristic has been returned for an item whose effortBreakdown has a
\* zero total, at the top of both scales
C25_Witness ==
  /\ pc = "capacity-done"
  /\ roadmapItems[1].effortBreakdown = Effort(0, 0, 0, 0)
  /\ roadmapItems[1].size = 5
  /\ roadmapItems[1].complexity = 5
  /\ remainingCapacity = 2 * One


\* the terms of the score of a scored allocation, in score units (1/120)
SkillTerm(a) == (SkillMatches(a) * 35 * 120) \div SkillDivisor(a)

PlatformTerm(a) ==
  IF roadmapItems[a.item].effortBreakdown.present
  THEN calculatePlatformBonus(teamMembers[a.member], roadmapItems[a.item])
  ELSE 0

InterestTerm(a) ==
  IF hasInterest(teamMembers[a.member], roadmapItems[a.item].domain) THEN 25 * 120 ELSE 0

CareerTerm(a) ==
  IF \E k \in DOMAIN roadmapItems[a.item].careerOpportunities :
       hasCareerGoal(teamMembers[a.member], roadmapItems[a.item].careerOpportunities[k])
  THEN 20 * 120 ELSE 0

LevelTerm(a) ==
  LET weight == getLevelWeight(teamMembers[a.member])
  IN IF weight >= LevelWeight(roadmapItems[a.item].minLevel)
     THEN IF roadmapItems[a.item].complexity >= 4 /\ weight >= 13 THEN 20 * 120 ELSE 10 * 120
     ELSE -(20 * 120)

\* C26: the score is the sum of the skill term, the platform bonus, the
\* interest bonus, the career bonus, the level term, priority * 5 and f * 15;
\* it is strictly increasing in f, and a matching skill, interest or career
\* goal adds a positive amount.
C26_ScoreTerms ==
  pc = "score" =>
    /\ \A k \in DOMAIN allocations :
         LET a == allocations[k] IN
         /\ a.score = SkillTerm(a) + PlatformTerm(a) + InterestTerm(a) + CareerTerm(a)
                        + LevelTerm(a) + (roadmapItems[a.item].priority * 5 * 12)
                        + (3 * a.allocation)
         /\ SkillMatches(a) > 0 => SkillTerm(a) > 0
         /\ PlatformTerm(a) >= 0
    /\ \A j, k \in DOMAIN allocations :
         (allocations[j].member = allocations[k].member
            /\ allocations[j].item = allocations[k].item
            /\ allocations[j].allocation < allocations[k].allocation)
           => allocations[j].score < allocations[k].score

\* one member is scored at two fractions on an item with an effortBreakdown,
\* with the skill, platform, interest and career bonuses all paid
C26_Witness ==
  /\ pc = "score"
  /\ Len(teamMembers) = 1
  /\ Len(allocations) = 2
  /\ SkillTerm(allocations[1]) > 0
  /\ PlatformTerm(allocations[1]) > 0
  /\ InterestTerm(allocations[1]) > 0
  /\ CareerTerm(allocations[1]) > 0
  /\ LevelTerm(allocations[1]) = 20 * 120
  /\ allocations[1].score # allocations[2].score


\* the sum of the amounts of the run's allocations that satisfy a test, given
\* as the sequence of its values
AllocatedWhere(tests) ==
  SumSeq([k \in DOMAIN allocations |-> IF tests[k] THEN allocations[k].allocation ELSE 0])

\* C27: at every point of a run and after it, each member's allocatedCapacity
\* is the sum of its assignments and the sum of the run's allocations to it,
\* each item's total allocation is the sum of the run's allocations to it, and
\* a report's totalAssignments is the number of allocations.
C27_Bookkeeping ==
  /\ \A i \in DOMAIN teamMembers :
       /\ teamMembers[i].allocatedCapacity
            = SumSeq([k \in DOMAIN teamMembers[i].assignments |->
                        teamMembers[i].assignments[k].allocation])
       /\ teamMembers[i].allocatedCapacity
            = AllocatedWhere([k \in DOMAIN allocations |-> allocations[k].member = i])
  /\ \A i \in DOMAIN roadmapItems :
       getTotalAllocation(roadmapItems[i])
         = AllocatedWhere([k \in DOMAIN allocations |-> allocations[k].item = i])
  /\ Done =>
       /\ report.summary.totalAssignments = Len(allocations)
       /\ Len(report.allocations) = Len(allocations)

\* a second run has returned in which a member holds two assignments and an
\* item has two assigned members
C27_Witness ==
  /\ Done
  /\ Len(returned) = 2
  /\ \E i \in DOMAIN teamMembers : Len(teamMembers[i].assignments) = 2
  /\ \E i \in DOMAIN roadmapItems : Len(roadmapItems[i].assignedMembers) = 2


\* C28: no item is over-staffed: at every point of a run and after it the
\* allocation committed to an item is at most its required capacity, and
\* while an item is processed remainingCapacity is what is still missing and
\* is never negative.
C28_NoOverStaffing ==
  /\ \A i \in DOMAIN roadmapItems :
       getTotalAllocation(roadmapItems[i]) <= getRequiredCapacity(roadmapItems[i])
  /\ pc = "walk" =>
       /\ remainingCapacity >= 0
       /\ remainingCapacity = getRequiredCapacity(roadmapItems[sortedItems[itemPos]])
                                - getTotalAllocation(roadmapItems[sortedItems[itemPos]])

\* an item has been filled exactly, by two members, the second one giving
\* less than it had free
C28_Witness ==
  /\ Done
  /\ \E i \in DOMAIN roadmapItems :
       /\ Len(roadmapItems[i].assignedMembers) = 2
       /\ getTotalAllocation(roadmapItems[i]) = getRequiredCapacity(roadmapItems[i])
       /\ \E m \in DOMAIN teamMembers :
            /\ teamMembers[m].name = roadmapItems[i].assignedMembers[2].member
            /\ getAvailableCapacity(teamMembers[m]) > 0


\* C29: while an item is processed, the members holding an allocation on it
\* are the first candidates of the ranking, in ranking order, none beyond the
\* candidates visited so far; the ranking is by probe score, highest first;
\* and no member ever holds two allocations on one item.
C29_PrefixOfRanking ==
  /\ pc = "walk" =>
       LET assigned == roadmapItems[sortedItems[itemPos]].assignedMembers
       IN /\ Len(assigned) <= potPos - 1
          /\ \A k \in DOMAIN assigned :
               assigned[k].member = teamMembers[potentialAllocations[k].member].name
          /\ \A j, k \in DOMAIN potentialAllocations :
               j < k => potentialAllocations[j].score >= potentialAllocations[k].score
  /\ \A i \in DOMAIN roadmapItems :
       \A j, k \in DOMAIN roadmapItems[i].assignedMembers :
         roadmapItems[i].assignedMembers[j].member = roadmapItems[i].assignedMembers[k].member
           => j = k

\* the walk over two candidates is over, the first holds an allocation and
\* the second, with capacity free, was left out
C29_Witness ==
  /\ pc = "walk"
  /\ Len(potentialAllocations) = 2
  /\ potPos = 3
  /\ Len(roadmapItems[sortedItems[itemPos]].assignedMembers) = 1
  /\ remainingCapacity > 0


\* C30: an item whose required capacity is above 0 and at most 0.1 never
\* holds an allocation and has the status 'not-staffed' once a run is over;
\* and right after an item has been processed, either at most 0.1 of it is left unfilled or every
\* candidate (a member with more than 0.1 free when the item was taken up)
\* holds an allocation on it.
C30_ResidualsDiscarded ==
  /\ \A i \in DOMAIN roadmapItems :
       (getRequiredCapacity(roadmapItems[i]) > 0
          /\ getRequiredCapacity(roadmapItems[i]) <= One \div 10)
         => /\ roadmapItems[i].assignedMembers = << >>
            /\ Done => roadmapItems[i].allocationStatus = "not-staffed"
  /\ (pc = "items" /\ itemPos > 1) =>
       LET it == roadmapItems[sortedItems[itemPos - 1]]
       IN \/ getRequiredCapacity(it) - getTotalAllocation(it) <= One \div 10
          \/ \A k \in DOMAIN potentialAllocations :
               \E a \in DOMAIN it.assignedMembers :
                 it.assignedMembers[a].member
                   = teamMembers[potentialAllocations[k].member].name

\* a run is over, an item needing at most 0.1 is in the roadmap and a member
\* still has more than 0.1 free
C30_Witness ==
  /\ Done
  /\ \E i \in DOMAIN roadmapItems :
       /\ getRequiredCapacity(roadmapItems[i]) > 0
       /\ getRequiredCapacity(roadmapItems[i]) <= One \div 10
  /\ \E m \in DOMAIN teamMembers :
       getAvailableCapacity(teamMembers[m]) > One \div 10

====
